---- MODULE Spec2Model ----
(***************************************************************************)
(* Touch-control core of BrowserQuest-SinglePlayer: the GestureRecognizer  *)
(* state machine (core/GestureRecognizer.ts) driven through the            *)
(* TouchControlManager (core/TouchControlManager.ts), and the resource     *)
(* managers PerformanceOptimizer and MemoryManager                         *)
(* (optimization/PerformanceOptimizer.ts).                                 *)
(*                                                                         *)
(* Numbers.  The source computes with IEEE doubles; the model keeps every  *)
(* quantity exact over the integers:                                       *)
(*   - a distance is kept as its square, and  d < m  is checked as         *)
(*     d^2 < m^2  (both sides are >= 0);                                   *)
(*   - velocityX, velocityY are the numerators of two fractions with the   *)
(*     common denominator velocityPer (the timeDelta they were divided by);*)
(*   - scale is the pair of squared distances (current, start);            *)
(*   - rotation is the pair of direction vectors (current, start) whose    *)
(*     atan2 difference it is.                                             *)
(* A TouchPoint's optional pressure is never read and is left out.         *)
(*                                                                         *)
(* Collaborators.  The AccessibilityManager and the FeedbackManager only   *)
(* write to the console when the manager calls them, and the               *)
(* PerformanceMonitor's timing pairs are read by nothing here; of the      *)
(* three, the model keeps the monitor's per-gesture-type counters.         *)
(***************************************************************************)
EXTENDS Integers, Sequences, FiniteSets, TLC

VARIABLES
    tick,           \* index of the current clock reading: Date.now() = now
    gestureState,   \* GestureRecognizer.gestureState (Null or a GestureState)
    isProcessing,   \* GestureRecognizer.isProcessing
    isEnabled,      \* TouchControlManager.isEnabled
    activeTouches,  \* TouchControlManager.activeTouches: identifier -> TouchPoint
    ret,            \* what the recognizer returned to the last handler
    op,             \* the last handler called, with its argument
    press,          \* history of the touch begun by the last handleTouchStart
    multi,          \* history: two touches were concurrent in this gesture
    gestureConfig,  \* GestureRecognizer.config
    config,         \* TouchControlManager.config
    touchTargets,   \* TouchControlManager.touchTargets: id -> TouchTarget
    gestureCallbacks, \* TouchControlManager.gestureCallbacks: type -> listeners
    gestureMetrics, \* PerformanceMonitor.gestureMetrics: type -> counters
    effects,        \* what the last call did outside the objects' fields
    pinch,          \* history of two touches started one after the other
    optimizerConfig,    \* PerformanceOptimizer.config
    gestureCache,       \* PerformanceOptimizer.gestureCache, in Map order
    shadowCache,        \* gestureCache of a second run without lookups
    evicted,            \* history: the keys the last insertion or
                        \* updateConfig evicted from gestureCache
    memoryPool,         \* PerformanceOptimizer.memoryPool
    batchQueue,         \* PerformanceOptimizer.batchQueue
    isProcessingBatch,  \* PerformanceOptimizer.isProcessingBatch
    performanceMetrics, \* PerformanceOptimizer.performanceMetrics
    drains,             \* the processBatch calls waiting at their await
    timers,             \* the pending setTimeout(..., 0) callbacks, in order
    processed,          \* history: the items given to processItem, in order
    optimizations,      \* history: the number of optimize... calls
    memoryConfig,       \* MemoryManager.config
    objectPool,         \* MemoryManager.objectPool
    memoryStats,        \* MemoryManager.memoryStats
    isMonitoring        \* MemoryManager.isMonitoring

\* The fields of the touch-control objects, with their histories.
touchControl == <<gestureState, isProcessing, isEnabled, activeTouches, press,
                  multi, gestureConfig, config, touchTargets,
                  gestureCallbacks, gestureMetrics, pinch>>

\* The fields of the PerformanceOptimizer and of the MemoryManager, with
\* their pending callbacks and histories.
caching == <<gestureCache, shadowCache, evicted>>
batching == <<batchQueue, isProcessingBatch, drains, timers, processed>>
optimizer == <<optimizerConfig, caching, memoryPool, batching,
               performanceMetrics>>
memoryManager == <<memoryConfig, objectPool, memoryStats, isMonitoring>>
resources == <<optimizer, memoryManager, optimizations>>

vars == <<tick, ret, op, effects, touchControl, resources>>

---------------------------------------------------------------------------
(* Configuration: the values of defaultTouchControlConfig.                 *)

minTouchTargetSize == 44
spacingBetweenTargets == 8
minDistance == 10
maxDistance == 1000
minDuration == 100
maxDuration == 2000
\* velocityThreshold = 0.3 = velocityThresholdNum / velocityThresholdDen
velocityThresholdNum == 3
velocityThresholdDen == 10
\* scaleThreshold = 0.1 = scaleThresholdNum / scaleThresholdDen
scaleThresholdNum == 1
scaleThresholdDen == 10
rotationThreshold == 15

\* The part of defaultTouchControlConfig the manager and the recognizer read.
defaultTouchControlConfig ==
    [ minTouchTargetSize    |-> minTouchTargetSize,
      spacingBetweenTargets |-> spacingBetweenTargets,
      gestureConfig |->
        [ minDistance       |-> minDistance,
          maxDistance       |-> maxDistance,
          minDuration       |-> minDuration,
          maxDuration       |-> maxDuration,
          velocityThreshold |-> [num |-> velocityThresholdNum,
                                 den |-> velocityThresholdDen],
          scaleThreshold    |-> [num |-> scaleThresholdNum,
                                 den |-> scaleThresholdDen],
          rotationThreshold |-> rotationThreshold ] ]

---------------------------------------------------------------------------
(* Bounds of the model.                                                    *)

\* The clock readings in ms, Clock(0), Clock(1), ...: the listed ones, then
\* one every maxDuration.
ClockReadings == <<0, 200, 600>>
LateStep == maxDuration

\* The last clock reading a behaviour reaches with one finger on the screen,
\* and with two.
MaxTicks == 2
MaxMultiTicks == 1

\* The most listeners registered at a time, over all gesture types, and the
\* most gestures the monitor counts.
MaxListeners == 3
MaxGestures == 2
Clock(k) ==
    IF k < Len(ClockReadings) THEN ClockReadings[k + 1]
    ELSE ClockReadings[Len(ClockReadings)] + (k + 1 - Len(ClockReadings)) * LateStep

\* Date.now()
now == Clock(tick)

Identifiers == {1, 2}

\* Screen positions <<x, y>> a touch may report.
Points == { <<100, 100>>, <<102, 102>>, <<110, 100>>, <<102, 112>>,
            <<200, 100>> }

\* The positions reported where two identifiers are in play.
MultiPoints == { <<100, 100>>, <<110, 100>>, <<200, 100>> }

---------------------------------------------------------------------------
(* Values.                                                                 *)

Null == [kind |-> "null"]

TouchPoint(p, t, id) ==
    [x |-> p[1], y |-> p[2], timestamp |-> t, identifier |-> id]

Abs(n) == IF n < 0 THEN -n ELSE n

RECURSIVE GCD(_, _)
GCD(a, b) == IF b = 0 THEN a ELSE GCD(b, a % b)

\* Math.pow(a, 2) + Math.pow(b, 2): the square of Math.sqrt(...) of it.
SumSq(a, b) == a * a + b * b

\* A direction <<dy, dx>> in lowest terms; atan2 depends on nothing else.
\* atan2(0, 0) is 0, the angle of <<0, 1>>.
Direction(dy, dx) ==
    IF dy = 0 /\ dx = 0 THEN <<0, 1>>
    ELSE LET g == GCD(Abs(dy), Abs(dx)) IN <<dy \div g, dx \div g>>

\* The fraction n/d in lowest terms, d > 0.
Ratio(n, d) == LET g == GCD(n, d) IN [num |-> n \div g, den |-> d \div g]

\* { ...a, ...b }
Merge(a, b) ==
    [k \in DOMAIN a \cup DOMAIN b |-> IF k \in DOMAIN b THEN b[k] ELSE a[k]]

---------------------------------------------------------------------------
(* GestureRecognizer.  Each method is an operator from the recognizer's    *)
(* fields (and the method's argument, and the clock where the method reads *)
(* Date.now()) to the fields after the call and the value returned.        *)

GestureTypes == {"TAP", "DOUBLE_TAP", "LONG_PRESS", "SWIPE_LEFT", "SWIPE_RIGHT",
                 "SWIPE_UP", "SWIPE_DOWN", "PAN", "PINCH", "ROTATE",
                 "EDGE_SWIPE", "FORCE_TOUCH"}

\* A findIndex that never finds the identifier.
findIndex_NeverFound(touches, id) == 0

\* Index of the first entry of touches with the identifier id, 0 if none
\* (findIndex, plus one).
findIndex(touches, id) ==
    IF \E i \in 1..Len(touches) : touches[i].identifier = id
    THEN CHOOSE i \in 1..Len(touches) :
            /\ touches[i].identifier = id
            /\ \A j \in 1..(i - 1) : touches[j].identifier # id
    ELSE 0

\* touches.filter(t => t.identifier !== id)
RECURSIVE filterOut(_, _)
filterOut(touches, id) ==
    IF touches = <<>> THEN <<>>
    ELSE IF Head(touches).identifier = id THEN filterOut(Tail(touches), id)
    ELSE <<Head(touches)>> \o filterOut(Tail(touches), id)

\* The GestureState onTouchStart builds.
NewGestureState(touch, t) ==
    [ startTime      |-> t,
      startTouches   |-> <<touch>>,
      currentTouches |-> <<touch>>,
      deltaX         |-> 0,
      deltaY         |-> 0,
      velocityX      |-> 0,
      velocityY      |-> 0,
      velocityPer    |-> 1,
      scale          |-> [num |-> 1, den |-> 1],
      rotation       |-> [current |-> <<0, 1>>, start |-> <<0, 1>>],
      isActive       |-> TRUE,
      isRecognized   |-> FALSE ]

\* An onTouchStart without the isProcessing guard.
onTouchStart_Unguarded(gs, proc, touch, t) ==
    [gestureState |-> NewGestureState(touch, t), isProcessing |-> TRUE]

onTouchStart(gs, proc, touch, t) ==
    IF proc
    THEN [gestureState |-> gs, isProcessing |-> proc]
    ELSE [gestureState |-> NewGestureState(touch, t), isProcessing |-> TRUE]

calculateMultiTouchProperties(gs) ==
    IF Len(gs.currentTouches) < 2 THEN gs
    ELSE
      LET touch1      == gs.currentTouches[1]
          touch2      == gs.currentTouches[2]
          startTouch1 == gs.startTouches[1]
          startTouch2 == IF Len(gs.startTouches) >= 2 THEN gs.startTouches[2]
                         ELSE startTouch1
          currentDistanceSq == SumSq(touch2.x - touch1.x, touch2.y - touch1.y)
          startDistanceSq   == SumSq(startTouch2.x - startTouch1.x,
                                     startTouch2.y - startTouch1.y)
          currentAngle == Direction(touch2.y - touch1.y, touch2.x - touch1.x)
          startAngle   == Direction(startTouch2.y - startTouch1.y,
                                    startTouch2.x - startTouch1.x)
      IN [gs EXCEPT
            !.scale    = IF startDistanceSq > 0
                         THEN Ratio(currentDistanceSq, startDistanceSq)
                         ELSE @,
            !.rotation = IF currentAngle = startAngle
                         THEN [current |-> <<0, 1>>, start |-> <<0, 1>>]
                         ELSE [current |-> currentAngle, start |-> startAngle]]

onTouchMove(gs, proc, touch) ==
    IF gs = Null \/ ~proc
    THEN [gestureState |-> gs, ret |-> Null]
    ELSE
      LET touchIndex == findIndex(gs.currentTouches, touch.identifier)
          touches    == IF touchIndex >= 1
                        THEN [gs.currentTouches EXCEPT ![touchIndex] = touch]
                        ELSE Append(gs.currentTouches, touch)
          startTouch == gs.startTouches[1]
          dX         == touch.x - startTouch.x
          dY         == touch.y - startTouch.y
          timeDelta  == touch.timestamp - startTouch.timestamp
          g          == GCD(GCD(Abs(dX), Abs(dY)), timeDelta)
          moved      == [gs EXCEPT
                           !.currentTouches = touches,
                           !.deltaX = dX,
                           !.deltaY = dY,
                           !.velocityX   = IF timeDelta > 0 THEN dX \div g ELSE @,
                           !.velocityY   = IF timeDelta > 0 THEN dY \div g ELSE @,
                           !.velocityPer = IF timeDelta > 0 THEN timeDelta \div g ELSE @]
      IN [gestureState |-> IF Len(touches) > 1
                           THEN calculateMultiTouchProperties(moved)
                           ELSE moved,
          ret |-> [kind |-> "state"]]

recognizeSwipeDirection(gs) ==
    LET absX == Abs(gs.deltaX)
        absY == Abs(gs.deltaY)
    IN IF absX > absY
       THEN (IF gs.deltaX > 0 THEN "SWIPE_RIGHT" ELSE "SWIPE_LEFT")
       ELSE (IF gs.deltaY > 0 THEN "SWIPE_DOWN" ELSE "SWIPE_UP")

\* Math.abs(scale - 1) > scaleThreshold, scale = sqrt(num/den)
ScaleExceedsThreshold(scale) ==
    LET threshold == gestureConfig.scaleThreshold
        hi == threshold.den + threshold.num
        lo == threshold.den - threshold.num
        d2 == threshold.den * threshold.den
    IN \/ scale.num * d2 > scale.den * hi * hi
       \/ lo >= 0 /\ scale.num * d2 < scale.den * lo * lo

\* |atan2(v[1], v[2])| > 15 degrees; tan(15 degrees) = 2 - sqrt(3).
AngleExceeds15(v) ==
    LET dy == Abs(v[1])
        dx == v[2]
    IN IF dx <= 0 THEN dy # 0 \/ dx < 0
       ELSE \/ 2 * dx - dy < 0
            \/ 3 * dx * dx > (2 * dx - dy) * (2 * dx - dy)

\* Math.abs(rotation) > rotationThreshold, where rotation is
\* (atan2(current) - atan2(start)) * 180 / PI and both angles lie in
\* (-180, 180].  The difference leaves (-180, 180] only when the two
\* directions lie in opposite open half planes; it is then beyond 180 in
\* absolute value.  Otherwise it is the angle between the two directions.
RotationExceedsThreshold(rotation) ==
    LET c     == rotation.current
        s     == rotation.start
        dot   == c[2] * s[2] + c[1] * s[1]
        cross == s[2] * c[1] - s[1] * c[2]
        wraps == \/ c[1] > 0 /\ s[1] < 0 /\ cross < 0
                 \/ c[1] < 0 /\ s[1] > 0 /\ cross > 0
    IN /\ gestureConfig.rotationThreshold = 15
       /\ (wraps \/ AngleExceeds15(<<cross, dot>>))

recognizeMultiTouchGesture(gs) ==
    IF ScaleExceedsThreshold(gs.scale) THEN "PINCH"
    ELSE IF RotationExceedsThreshold(gs.rotation) THEN "ROTATE"
    ELSE "null"

\* velocity > velocityThreshold, velocity < velocityThreshold
VelocityAbove(gs) ==
    LET threshold == gestureConfig.velocityThreshold
    IN SumSq(gs.velocityX, gs.velocityY) * threshold.den * threshold.den
         > threshold.num * threshold.num * gs.velocityPer * gs.velocityPer

\* velocity <= velocityThreshold
VelocityBelow_OrEqual(gs) ==
    LET threshold == gestureConfig.velocityThreshold
    IN SumSq(gs.velocityX, gs.velocityY) * threshold.den * threshold.den
         <= threshold.num * threshold.num * gs.velocityPer * gs.velocityPer

VelocityBelow(gs) ==
    LET threshold == gestureConfig.velocityThreshold
    IN SumSq(gs.velocityX, gs.velocityY) * threshold.den * threshold.den
         < threshold.num * threshold.num * gs.velocityPer * gs.velocityPer

\* A recognizeGesture that tests the LONG_PRESS rule before the TAP rule.
recognizeGesture_LongPressFirst(gs, t) ==
    LET duration   == t - gs.startTime
        distanceSq == SumSq(gs.deltaX, gs.deltaY)
        minSq      == gestureConfig.minDistance * gestureConfig.minDistance
    IN IF distanceSq < minSq /\ duration > gestureConfig.minDuration
       THEN "LONG_PRESS"
       ELSE IF distanceSq < minSq /\ duration < gestureConfig.maxDuration
            THEN "TAP"
       ELSE IF VelocityAbove(gs) /\ distanceSq > minSq
            THEN recognizeSwipeDirection(gs)
       ELSE IF distanceSq > minSq /\ VelocityBelow(gs) THEN "PAN"
       ELSE IF Len(gs.currentTouches) > 1 THEN recognizeMultiTouchGesture(gs)
       ELSE "null"

recognizeGesture(gs, t) ==
    LET duration   == t - gs.startTime
        distanceSq == SumSq(gs.deltaX, gs.deltaY)
        minSq      == gestureConfig.minDistance * gestureConfig.minDistance
    IN IF distanceSq < minSq /\ duration < gestureConfig.maxDuration THEN "TAP"
       ELSE IF distanceSq < minSq /\ duration > gestureConfig.minDuration
            THEN "LONG_PRESS"
       ELSE IF VelocityAbove(gs) /\ distanceSq > minSq
            THEN recognizeSwipeDirection(gs)
       ELSE IF distanceSq > minSq /\ VelocityBelow(gs) THEN "PAN"
       ELSE IF Len(gs.currentTouches) > 1 THEN recognizeMultiTouchGesture(gs)
       ELSE "null"

\* An onTouchEnd that classifies at every release, partial or full.
onTouchEnd_ClassifiesPartial(gs, proc, touch, t) ==
    IF gs = Null \/ ~proc
    THEN [gestureState |-> gs, isProcessing |-> proc, ret |-> Null]
    ELSE
      LET released    == [gs EXCEPT !.currentTouches =
                                      filterOut(@, touch.identifier)]
          gestureType == recognizeGesture(released, t)
      IN IF gestureType # "null"
         THEN [gestureState |-> [released EXCEPT !.isRecognized = TRUE,
                                                 !.isActive = FALSE],
               isProcessing |-> FALSE,
               ret |-> [kind |-> "event", type |-> gestureType,
                        state |-> released, timestamp |-> t]]
         ELSE [gestureState |-> released, isProcessing |-> proc, ret |-> Null]

\* An onTouchEnd that returns the event and leaves isProcessing set.
onTouchEnd_StillProcessing(gs, proc, touch, t) ==
    IF gs = Null \/ ~proc
    THEN [gestureState |-> gs, isProcessing |-> proc, ret |-> Null]
    ELSE
      LET released    == [gs EXCEPT !.currentTouches =
                                      filterOut(@, touch.identifier)]
          gestureType == recognizeGesture(released, t)
      IN IF Len(released.currentTouches) = 0 /\ gestureType # "null"
         THEN [gestureState |-> [released EXCEPT !.isRecognized = TRUE,
                                                 !.isActive = FALSE],
               isProcessing |-> proc,
               ret |-> [kind |-> "event", type |-> gestureType,
                        state |-> released, timestamp |-> t]]
         ELSE [gestureState |-> released, isProcessing |-> proc, ret |-> Null]

onTouchEnd(gs, proc, touch, t) ==
    IF gs = Null \/ ~proc
    THEN [gestureState |-> gs, isProcessing |-> proc, ret |-> Null]
    ELSE
      LET released    == [gs EXCEPT !.currentTouches =
                                      filterOut(@, touch.identifier)]
          gestureType == recognizeGesture(released, t)
      IN IF Len(released.currentTouches) = 0 /\ gestureType # "null"
         THEN [gestureState |-> [released EXCEPT !.isRecognized = TRUE,
                                                 !.isActive = FALSE],
               isProcessing |-> FALSE,
               ret |-> [kind |-> "event", type |-> gestureType,
                        state |-> released, timestamp |-> t]]
         ELSE [gestureState |-> released, isProcessing |-> proc, ret |-> Null]

\* An updateConfig that merges the new values into the defaults.
GestureRecognizer_updateConfig_OverDefaults(cfg, newConfig) ==
    Merge(defaultTouchControlConfig.gestureConfig, newConfig)

\* GestureRecognizer.updateConfig: this.config = { ...this.config, ...newConfig }
GestureRecognizer_updateConfig(cfg, newConfig) == Merge(cfg, newConfig)

\* A reset that forgets the isProcessing flag.
reset_KeepsProcessing == [gestureState |-> Null, isProcessing |-> isProcessing]

reset == [gestureState |-> Null, isProcessing |-> FALSE]

isGestureActive ==
    isProcessing /\ gestureState # Null /\ gestureState.isActive

---------------------------------------------------------------------------
(* PerformanceMonitor: the per-gesture-type counters.                      *)

\* A part of the state that a specification does not follow.
Untracked == [kind |-> "untracked"]

initializeGestureMetrics ==
    [t \in GestureTypes |-> [count |-> 0, successCount |-> 0, errorCount |-> 0]]

recordGesture(metrics, gestureType, success) ==
    IF metrics = Untracked \/ gestureType \notin DOMAIN metrics THEN metrics
    ELSE [metrics EXCEPT ![gestureType] =
            [count        |-> @.count + 1,
             successCount |-> @.successCount + (IF success THEN 1 ELSE 0),
             errorCount   |-> @.errorCount + (IF success THEN 0 ELSE 1)]]

---------------------------------------------------------------------------
(* TouchControlManager: one action per public method.  A handler called    *)
(* while the manager is disabled returns at once (forwarded = FALSE).      *)

EmptyMap == [i \in {} |-> Null]

\* Map.set and Map.delete
MapSet(m, k, v) == [i \in DOMAIN m \cup {k} |-> IF i = k THEN v ELSE m[i]]
MapDelete(m, k) == [i \in DOMAIN m \ {k} |-> m[i]]

\* The listeners (functions) a client may register.  Calling a listener of
\* Throwing throws; calling any other returns.
Listeners == {1, 2}
Throwing == {2}

\* What a call did besides changing fields: the listeners it invoked, in
\* order; the console.error and console.warn lines it wrote; whether an
\* exception left it.
NoEffects == [invoked |-> <<>>, errors |-> 0, warnings |-> 0, threw |-> FALSE]

initializeGestureCallbacks == [t \in GestureTypes |-> <<>>]

\* gestureCallbacks.get(gestureType) || []
getCallbacks(callbacks, gestureType) ==
    IF gestureType \in DOMAIN callbacks THEN callbacks[gestureType] ELSE <<>>

\* callbacks.forEach with the call inside try/catch: every listener is
\* called; one that throws adds a console.error line.
RECURSIVE forEachCallback(_)
forEachCallback(callbacks) ==
    IF callbacks = <<>> THEN [invoked |-> <<>>, errors |-> 0]
    ELSE LET rest == forEachCallback(Tail(callbacks))
         IN [invoked |-> <<Head(callbacks)>> \o rest.invoked,
             errors  |-> rest.errors
                           + (IF Head(callbacks) \in Throwing THEN 1 ELSE 0)]

\* A forEach without the try/catch: the first listener that throws ends the
\* dispatch and the exception leaves processGestureEvent.
RECURSIVE forEachCallback_Uncaught(_)
forEachCallback_Uncaught(callbacks) ==
    IF callbacks = <<>> THEN [invoked |-> <<>>, threw |-> FALSE]
    ELSE IF Head(callbacks) \in Throwing
         THEN [invoked |-> <<Head(callbacks)>>, threw |-> TRUE]
    ELSE LET rest == forEachCallback_Uncaught(Tail(callbacks))
         IN [invoked |-> <<Head(callbacks)>> \o rest.invoked,
             threw   |-> rest.threw]

processGestureEvent_Uncaught(callbacks, metrics, gestureEvent) ==
    LET done == forEachCallback_Uncaught(getCallbacks(callbacks, gestureEvent.type))
    IN [invoked |-> done.invoked,
        errors  |-> 0,
        threw   |-> done.threw,
        gestureMetrics |-> IF done.threw THEN metrics
                           ELSE recordGesture(metrics, gestureEvent.type, TRUE)]

\* A processGestureEvent that records the gesture only if no listener threw.
processGestureEvent_SkipsFailed(callbacks, metrics, gestureEvent) ==
    LET done == forEachCallback(getCallbacks(callbacks, gestureEvent.type))
    IN [invoked |-> done.invoked,
        errors  |-> done.errors,
        threw   |-> FALSE,
        gestureMetrics |-> IF done.errors > 0 THEN metrics
                           ELSE recordGesture(metrics, gestureEvent.type, TRUE)]

processGestureEvent(callbacks, metrics, gestureEvent) ==
    LET done == forEachCallback(getCallbacks(callbacks, gestureEvent.type))
    IN [invoked |-> done.invoked,
        errors  |-> done.errors,
        threw   |-> FALSE,
        gestureMetrics |-> recordGesture(metrics, gestureEvent.type, TRUE)]

\* callbacks.indexOf(callback), plus one: 0 if absent.
indexOf(callbacks, callback) ==
    IF \E i \in 1..Len(callbacks) : callbacks[i] = callback
    THEN CHOOSE i \in 1..Len(callbacks) :
            /\ callbacks[i] = callback
            /\ \A j \in 1..(i - 1) : callbacks[j] # callback
    ELSE 0

\* callbacks.splice(index, 1), index counted from 1
splice(callbacks, index) ==
    SubSeq(callbacks, 1, index - 1) \o SubSeq(callbacks, index + 1, Len(callbacks))

isTargetsTooClose(cfg, target1, target2) ==
    LET minSpacing == cfg.spacingBetweenTargets
    IN SumSq(target1.x - target2.x, target1.y - target2.y)
         < minSpacing * minSpacing

\* The number of console.warn lines validateTouchTarget writes.
validateTouchTarget(cfg, targets, target) ==
    LET minSize == cfg.minTouchTargetSize
    IN (IF target.width < minSize \/ target.height < minSize THEN 1 ELSE 0)
       + Cardinality({id \in DOMAIN targets :
                         isTargetsTooClose(cfg, target, targets[id])})

\* press, pinch: Untracked where no history is kept, NoPress / NoPinch
\* where no touch is followed, else the touches followed.
NoPress   == [kind |-> "none"]
IsPress(h) == h.kind = "press"
NoPinch   == [kind |-> "no pinch"]
IsPinch(h) == h.kind = "pinch"

\* A call of a public method: its name, the identifier it carried (0 if
\* none), whether it reached the recognizer, isProcessing as the call found
\* it, and its argument where it is not a touch.
CalledWith(name, id, fwd, arg) ==
    [name |-> name, identifier |-> id, forwarded |-> fwd,
     wasProcessing |-> isProcessing, arg |-> arg]
Called(name, id, fwd) == CalledWith(name, id, fwd, Null)

PressBegun(touch) ==
    IF press = Untracked THEN press
    ELSE [kind |-> "press", start |-> touch, at |-> now,
          accepted |-> ~isProcessing, moved |-> Null, end |-> Null]

\* History kept for a handler call that carries the identifier of the
\* touch in press: a move or the release is recorded; any call with another
\* identifier, or after the release, ends the history.
PressAfter(name, touch) ==
    IF ~IsPress(press) THEN press
    ELSE IF touch.identifier # press.start.identifier \/ press.end # Null
         THEN NoPress
    ELSE IF name = "handleTouchMove" THEN [press EXCEPT !.moved = touch]
    ELSE [press EXCEPT !.end = touch]

\* History of handleTouchStart(first), handleTouchStart(second) with
\* another identifier, then one handleTouchMove of each: any other handler
\* call ends it, a handleTouchStart begins it anew.
PinchAfter(name, touch) ==
    IF pinch = Untracked THEN pinch
    ELSE IF name = "handleTouchStart"
         THEN IF /\ IsPinch(pinch) /\ pinch.second = Null
                 /\ touch.identifier # pinch.first.identifier
              THEN [pinch EXCEPT !.second = touch]
              ELSE [kind |-> "pinch", first |-> touch, second |-> Null,
                    movedFirst |-> Null, movedSecond |-> Null]
    ELSE IF name = "handleTouchMove" /\ IsPinch(pinch) /\ pinch.second # Null
         THEN IF /\ touch.identifier = pinch.first.identifier
                 /\ pinch.movedFirst = Null
              THEN [pinch EXCEPT !.movedFirst = touch]
              ELSE IF /\ touch.identifier = pinch.second.identifier
                      /\ pinch.movedSecond = Null
                   THEN [pinch EXCEPT !.movedSecond = touch]
                   ELSE NoPinch
    ELSE NoPinch

\* A specification of the touch handlers does not follow the
\* PerformanceOptimizer and the MemoryManager.
NoResources ==
    /\ optimizerConfig = Untracked
    /\ gestureCache = Untracked
    /\ shadowCache = Untracked
    /\ evicted = Untracked
    /\ memoryPool = Untracked
    /\ batchQueue = Untracked
    /\ isProcessingBatch = Untracked
    /\ performanceMetrics = Untracked
    /\ drains = Untracked
    /\ timers = Untracked
    /\ processed = Untracked
    /\ optimizations = Untracked
    /\ memoryConfig = Untracked
    /\ objectPool = Untracked
    /\ memoryStats = Untracked
    /\ isMonitoring = Untracked

\* The fields after the constructors have run.
Constructed ==
    /\ tick = 0
    /\ gestureState = Null
    /\ isProcessing = FALSE
    /\ gestureConfig = defaultTouchControlConfig.gestureConfig
    /\ isEnabled = TRUE
    /\ config = defaultTouchControlConfig
    /\ activeTouches = EmptyMap
    /\ touchTargets = EmptyMap
    /\ gestureCallbacks = initializeGestureCallbacks
    /\ ret = Null
    /\ op = [name |-> "none", identifier |-> 0, forwarded |-> FALSE,
             wasProcessing |-> FALSE, arg |-> Null]
    /\ effects = NoEffects
    /\ multi = FALSE

Init ==
    /\ Constructed
    /\ NoResources
    /\ gestureMetrics = Untracked
    /\ press = Untracked
    /\ pinch = Untracked

Ignored(name, id) ==
    /\ ~isEnabled
    /\ op' = Called(name, id, FALSE)
    /\ ret' = Null
    /\ effects' = NoEffects
    /\ UNCHANGED resources
    /\ UNCHANGED <<tick, gestureState, isProcessing, isEnabled, activeTouches,
                   press, multi, gestureConfig, config, touchTargets,
                   gestureCallbacks, gestureMetrics, pinch>>

\* A handleTouchStart without the isEnabled guard.
handleTouchStart_NoGuard(touch) ==
    LET r == onTouchStart(gestureState, isProcessing, touch, now)
    IN /\ activeTouches' = MapSet(activeTouches, touch.identifier, touch)
       /\ gestureState' = r.gestureState
       /\ isProcessing' = r.isProcessing
       /\ ret' = Null
       /\ op' = Called("handleTouchStart", touch.identifier, isEnabled)
       /\ effects' = NoEffects
       /\ press' = PressBegun(touch)
       /\ pinch' = PinchAfter("handleTouchStart", touch)
       /\ multi' = (isProcessing /\ multi)
       /\ UNCHANGED resources
       /\ UNCHANGED <<tick, isEnabled, gestureConfig, config, touchTargets,
                      gestureCallbacks, gestureMetrics>>

handleTouchStart(touch) ==
    \/ Ignored("handleTouchStart", touch.identifier)
    \/ /\ isEnabled
       /\ LET r == onTouchStart(gestureState, isProcessing, touch, now)
          IN /\ activeTouches' = MapSet(activeTouches, touch.identifier, touch)
             /\ gestureState' = r.gestureState
             /\ isProcessing' = r.isProcessing
             /\ ret' = Null
             /\ op' = Called("handleTouchStart", touch.identifier, TRUE)
             /\ effects' = NoEffects
             /\ press' = PressBegun(touch)
             /\ pinch' = PinchAfter("handleTouchStart", touch)
             /\ multi' = (isProcessing /\ multi)
             /\ UNCHANGED resources
             /\ UNCHANGED <<tick, isEnabled, gestureConfig, config,
                            touchTargets, gestureCallbacks, gestureMetrics>>

handleTouchMove(touch) ==
    \/ Ignored("handleTouchMove", touch.identifier)
    \/ /\ isEnabled
       /\ LET r == onTouchMove(gestureState, isProcessing, touch)
          IN /\ activeTouches' = MapSet(activeTouches, touch.identifier, touch)
             /\ gestureState' = r.gestureState
             /\ ret' = r.ret
             /\ op' = Called("handleTouchMove", touch.identifier, TRUE)
             /\ effects' = NoEffects
             /\ press' = PressAfter("handleTouchMove", touch)
             /\ pinch' = PinchAfter("handleTouchMove", touch)
             /\ multi' = (multi \/ (r.ret # Null
                                     /\ Len(r.gestureState.currentTouches) > 1))
             /\ UNCHANGED resources
             /\ UNCHANGED <<tick, isProcessing, isEnabled, gestureConfig,
                            config, touchTargets, gestureCallbacks,
                            gestureMetrics>>

handleTouchEnd(touch) ==
    \/ Ignored("handleTouchEnd", touch.identifier)
    \/ /\ isEnabled
       /\ LET r == onTouchEnd(gestureState, isProcessing, touch, now)
              d == IF r.ret # Null
                   THEN processGestureEvent(gestureCallbacks, gestureMetrics,
                                            r.ret)
                   ELSE [invoked |-> <<>>, errors |-> 0, threw |-> FALSE,
                         gestureMetrics |-> gestureMetrics]
          IN /\ activeTouches' = MapDelete(activeTouches, touch.identifier)
             /\ gestureState' = r.gestureState
             /\ isProcessing' = r.isProcessing
             /\ ret' = r.ret
             /\ gestureMetrics' = d.gestureMetrics
             /\ effects' = [NoEffects EXCEPT !.invoked = d.invoked,
                                             !.errors = d.errors,
                                             !.threw = d.threw]
             /\ op' = Called("handleTouchEnd", touch.identifier, TRUE)
             /\ press' = PressAfter("handleTouchEnd", touch)
             /\ pinch' = PinchAfter("handleTouchEnd", touch)
             /\ UNCHANGED resources
             /\ UNCHANGED <<tick, isEnabled, multi, gestureConfig, config,
                            touchTargets, gestureCallbacks>>

\* An onGesture that puts the listener at the head of the list.
onGesture_Prepends(gestureType, callback) ==
    /\ gestureCallbacks' =
         MapSet(gestureCallbacks, gestureType,
                <<callback>> \o getCallbacks(gestureCallbacks, gestureType))
    /\ op' = CalledWith("onGesture", 0, TRUE,
                        [gestureType |-> gestureType, callback |-> callback])
    /\ ret' = Null
    /\ effects' = NoEffects
    /\ UNCHANGED resources
    /\ UNCHANGED <<tick, gestureState, isProcessing, isEnabled, activeTouches,
                   press, multi, gestureConfig, config, touchTargets,
                   gestureMetrics, pinch>>

onGesture(gestureType, callback) ==
    /\ gestureCallbacks' =
         MapSet(gestureCallbacks, gestureType,
                Append(getCallbacks(gestureCallbacks, gestureType), callback))
    /\ op' = CalledWith("onGesture", 0, TRUE,
                        [gestureType |-> gestureType, callback |-> callback])
    /\ ret' = Null
    /\ effects' = NoEffects
    /\ UNCHANGED resources
    /\ UNCHANGED <<tick, gestureState, isProcessing, isEnabled, activeTouches,
                   press, multi, gestureConfig, config, touchTargets,
                   gestureMetrics, pinch>>

offGesture(gestureType, callback) ==
    /\ LET callbacks == getCallbacks(gestureCallbacks, gestureType)
           index     == indexOf(callbacks, callback)
       IN gestureCallbacks' =
            IF index > 0
            THEN MapSet(gestureCallbacks, gestureType, splice(callbacks, index))
            ELSE gestureCallbacks
    /\ op' = CalledWith("offGesture", 0, TRUE,
                        [gestureType |-> gestureType, callback |-> callback])
    /\ ret' = Null
    /\ effects' = NoEffects
    /\ UNCHANGED resources
    /\ UNCHANGED <<tick, gestureState, isProcessing, isEnabled, activeTouches,
                   press, multi, gestureConfig, config, touchTargets,
                   gestureMetrics, pinch>>

\* A registerTouchTarget that turns away a target validateTouchTarget
\* warned about.
registerTouchTarget_Rejects(target) ==
    /\ LET warnings == validateTouchTarget(config, touchTargets, target)
       IN /\ effects' = [NoEffects EXCEPT !.warnings = warnings]
          /\ touchTargets' = IF warnings > 0 THEN touchTargets
                             ELSE MapSet(touchTargets, target.id, target)
    /\ op' = CalledWith("registerTouchTarget", 0, TRUE, target)
    /\ ret' = Null
    /\ UNCHANGED resources
    /\ UNCHANGED <<tick, gestureState, isProcessing, isEnabled, activeTouches,
                   press, multi, gestureConfig, config, gestureCallbacks,
                   gestureMetrics, pinch>>

registerTouchTarget(target) ==
    /\ effects' = [NoEffects EXCEPT
                     !.warnings = validateTouchTarget(config, touchTargets, target)]
    /\ touchTargets' = MapSet(touchTargets, target.id, target)
    /\ op' = CalledWith("registerTouchTarget", 0, TRUE, target)
    /\ ret' = Null
    /\ UNCHANGED resources
    /\ UNCHANGED <<tick, gestureState, isProcessing, isEnabled, activeTouches,
                   press, multi, gestureConfig, config, gestureCallbacks,
                   gestureMetrics, pinch>>

unregisterTouchTarget(targetId) ==
    /\ touchTargets' = MapDelete(touchTargets, targetId)
    /\ op' = CalledWith("unregisterTouchTarget", 0, TRUE, targetId)
    /\ ret' = Null
    /\ effects' = NoEffects
    /\ UNCHANGED resources
    /\ UNCHANGED <<tick, gestureState, isProcessing, isEnabled, activeTouches,
                   press, multi, gestureConfig, config, gestureCallbacks,
                   gestureMetrics, pinch>>

setEnabled(enabled) ==
    /\ isEnabled' = enabled
    /\ IF ~enabled
       THEN /\ activeTouches' = EmptyMap
            /\ gestureState' = reset.gestureState
            /\ isProcessing' = reset.isProcessing
            /\ press' = IF press = Untracked THEN press ELSE NoPress
            /\ multi' = FALSE
       ELSE UNCHANGED <<activeTouches, gestureState, isProcessing, press, multi>>
    /\ pinch' = IF pinch = Untracked THEN pinch ELSE NoPinch
    /\ ret' = Null
    /\ op' = Called("setEnabled", 0, enabled)
    /\ effects' = NoEffects
    /\ UNCHANGED resources
    /\ UNCHANGED <<tick, gestureConfig, config, touchTargets, gestureCallbacks,
                   gestureMetrics>>

updateConfig(newConfig) ==
    /\ config' = Merge(config, newConfig)
    /\ gestureConfig' =
         GestureRecognizer_updateConfig(gestureConfig, config'.gestureConfig)
    /\ op' = CalledWith("updateConfig", 0, TRUE, newConfig)
    /\ ret' = Null
    /\ effects' = NoEffects
    /\ UNCHANGED resources
    /\ UNCHANGED <<tick, gestureState, isProcessing, isEnabled, activeTouches,
                   press, multi, touchTargets, gestureCallbacks,
                   gestureMetrics, pinch>>

\* Time passes between two calls.
Tick(k) ==
    /\ k > tick
    /\ tick' = k
    /\ ret' = Null
    /\ op' = Called("tick", 0, FALSE)
    /\ effects' = NoEffects
    /\ UNCHANGED resources
    /\ UNCHANGED <<gestureState, isProcessing, isEnabled, activeTouches,
                   press, multi, gestureConfig, config, touchTargets,
                   gestureCallbacks, gestureMetrics, pinch>>

---------------------------------------------------------------------------
(* Specifications.  Each follows the objects under one family of calls.    *)

\* Spec: the touch handlers and setEnabled, for two identifiers.
\* The touches a raw callback may deliver now.
Touches == {TouchPoint(p, now, id) : p \in MultiPoints, id \in Identifiers}

Next ==
    \/ \E touch \in Touches : handleTouchStart(touch)
    \/ \E touch \in Touches : handleTouchMove(touch)
    \/ \E touch \in Touches : handleTouchEnd(touch)
    \/ \E enabled \in BOOLEAN : setEnabled(enabled)
    \/ \E k \in 1..MaxMultiTicks : Tick(k)

Spec == Init /\ [][Next]_vars

\* SpecSingle.  One finger on the screen: every callback carries the
\* identifier 1, the finger goes down only when it is up and moves or goes
\* up only when it is down (as far as the manager's registry tells), and
\* the history of the touch is kept in press.
SingleTouches == {TouchPoint(p, now, 1) : p \in Points}

InitSingle ==
    /\ Constructed
    /\ NoResources
    /\ gestureMetrics = Untracked
    /\ press = NoPress
    /\ pinch = Untracked

NextSingle ==
    \/ \E touch \in SingleTouches :
          touch.identifier \notin DOMAIN activeTouches /\ handleTouchStart(touch)
    \/ \E touch \in SingleTouches :
          touch.identifier \in DOMAIN activeTouches /\ handleTouchMove(touch)
    \/ \E touch \in SingleTouches :
          touch.identifier \in DOMAIN activeTouches /\ handleTouchEnd(touch)
    \/ \E enabled \in BOOLEAN : setEnabled(enabled)
    \/ \E k \in 1..MaxTicks : Tick(k)

SpecSingle == InitSingle /\ [][NextSingle]_vars

\* SpecPinch.  Two fingers, with positions that let them move apart: a
\* finger goes down only when it is up and moves or goes up only when it is
\* down (as far as the manager's registry tells), and the history of two
\* fingers going down one after the other is kept in pinch.
PinchPoints == { <<100, 100>>, <<200, 100>>, <<90, 100>>, <<210, 100>> }

PinchTouches == {TouchPoint(p, now, id) : p \in PinchPoints, id \in Identifiers}

InitPinch ==
    /\ Constructed
    /\ NoResources
    /\ gestureMetrics = Untracked
    /\ press = Untracked
    /\ pinch = NoPinch

NextPinch ==
    \/ \E touch \in PinchTouches :
          touch.identifier \notin DOMAIN activeTouches /\ handleTouchStart(touch)
    \/ \E touch \in PinchTouches :
          touch.identifier \in DOMAIN activeTouches /\ handleTouchMove(touch)
    \/ \E touch \in PinchTouches :
          touch.identifier \in DOMAIN activeTouches /\ handleTouchEnd(touch)
    \/ \E enabled \in BOOLEAN : setEnabled(enabled)
    \/ \E k \in 1..MaxMultiTicks : Tick(k)

SpecPinch == InitPinch /\ [][NextPinch]_vars

\* SpecManager.  One finger and the listeners: the touch handlers,
\* setEnabled, onGesture and offGesture, with the monitor's counters
\* followed.  No time passes, so a release is a TAP or a PAN.
ManagerPoints == { <<100, 100>>, <<200, 100>> }

ManagerTouches == {TouchPoint(p, now, 1) : p \in ManagerPoints}

\* The gesture types listeners are registered for.
ListenerTypes == {"TAP", "PAN"}

RECURSIVE SumOver(_, _)
SumOver(f, S) ==
    IF S = {} THEN 0
    ELSE LET x == CHOOSE y \in S : TRUE IN f[x] + SumOver(f, S \ {x})

\* The number of listeners registered, over all types.
totalListeners ==
    SumOver([t \in DOMAIN gestureCallbacks |-> Len(gestureCallbacks[t])],
            DOMAIN gestureCallbacks)

\* getMetrics: the sum of the counts of all gesture types.
totalGestures ==
    SumOver([t \in DOMAIN gestureMetrics |-> gestureMetrics[t].count],
            DOMAIN gestureMetrics)

InitManager ==
    /\ Constructed
    /\ NoResources
    /\ gestureMetrics = initializeGestureMetrics
    /\ press = Untracked
    /\ pinch = Untracked

NextManager ==
    \/ \E touch \in ManagerTouches : handleTouchStart(touch)
    \/ \E touch \in ManagerTouches : handleTouchMove(touch)
    \/ \E touch \in ManagerTouches :
          totalGestures < MaxGestures /\ handleTouchEnd(touch)
    \/ \E enabled \in BOOLEAN : setEnabled(enabled)
    \/ \E gestureType \in ListenerTypes, callback \in Listeners :
          totalListeners < MaxListeners /\ onGesture(gestureType, callback)
    \/ \E gestureType \in ListenerTypes, callback \in Listeners :
          offGesture(gestureType, callback)

SpecManager == InitManager /\ [][NextManager]_vars

\* SpecTargets.  The touch-target registry under registerTouchTarget and
\* unregisterTouchTarget.  A TouchTarget's minSize and accessibility
\* fields are never read by the manager and are left out.
TargetIds == {"a", "b"}
TargetPlaces == { <<0, 0>>, <<5, 0>>, <<100, 0>> }
TargetSizes == { <<20, 20>>, <<50, 20>>, <<50, 50>> }

TouchTarget(id, place, size) ==
    [id |-> id, x |-> place[1], y |-> place[2],
     width |-> size[1], height |-> size[2]]

Targets ==
    {TouchTarget(id, place, size) :
        id \in TargetIds, place \in TargetPlaces, size \in TargetSizes}

InitTargets ==
    /\ Constructed
    /\ NoResources
    /\ gestureMetrics = Untracked
    /\ press = Untracked
    /\ pinch = Untracked

NextTargets ==
    \/ \E target \in Targets : registerTouchTarget(target)
    \/ \E targetId \in TargetIds : unregisterTouchTarget(targetId)

SpecTargets == InitTargets /\ [][NextTargets]_vars

\* SpecConfig.  One finger and updateConfig: the touch handlers (a finger
\* goes down only when it is up and moves or goes up only when it is down)
\* and updateConfig with partial configurations.
ConfigPoints == { <<100, 100>>, <<112, 100>> }

ConfigTouches == {TouchPoint(p, now, 1) : p \in ConfigPoints}

\* The thresholds an update may name, each with the values it may give.
UpdateValues ==
    [minDistance |-> {minDistance, 15}, maxDuration |-> {maxDuration, 150}]

\* The partial gesture configurations: any subset of the thresholds of
\* UpdateValues, each with one of its values.
GestureUpdates ==
    UNION { {g \in [named -> UNION {UpdateValues[f] : f \in named}] :
                \A f \in named : g[f] \in UpdateValues[f]} :
            named \in SUBSET DOMAIN UpdateValues }

\* The partial configurations: a gestureConfig, a minTouchTargetSize, or
\* both.
ConfigUpdates ==
    {[gestureConfig |-> g] : g \in GestureUpdates}
      \cup {[minTouchTargetSize |-> 50]}
      \cup {[minTouchTargetSize |-> 50, gestureConfig |-> g] :
               g \in GestureUpdates}

InitConfig ==
    /\ Constructed
    /\ NoResources
    /\ gestureMetrics = Untracked
    /\ press = Untracked
    /\ pinch = Untracked

NextConfig ==
    \/ \E touch \in ConfigTouches :
          touch.identifier \notin DOMAIN activeTouches /\ handleTouchStart(touch)
    \/ \E touch \in ConfigTouches :
          touch.identifier \in DOMAIN activeTouches /\ handleTouchMove(touch)
    \/ \E touch \in ConfigTouches :
          touch.identifier \in DOMAIN activeTouches /\ handleTouchEnd(touch)
    \/ \E newConfig \in ConfigUpdates : updateConfig(newConfig)
    \/ \E k \in 1..MaxMultiTicks : Tick(k)

SpecConfig == InitConfig /\ [][NextConfig]_vars

---------------------------------------------------------------------------
(* PerformanceOptimizer and MemoryManager                                  *)
(* (optimization/PerformanceOptimizer.ts): object pools, the result cache, *)
(* the batch queue and the adaptive tuning.  One action per public method  *)
(* and per scheduled callback.                                             *)
(*                                                                         *)
(* Numbers.  A size or threshold that the source multiplies by 0.8, 0.9,   *)
(* 1.1 or 1.2 is kept as a fraction in lowest terms.                       *)
(* Of OptimizationConfig, enableLazyLoading and optimizationThreshold are  *)
(* read by nothing and are left out; so are MemoryConfig.gcInterval's      *)
(* value and the MemoryManager's WeakMap of tracked objects.               *)

Number(n) == Ratio(n, 1)

\* v * (p / q)
Times(v, p, q) == Ratio(v.num * p, v.den * q)

LessThan(a, b) == a.num * b.den < b.num * a.den

MathMax(a, b) == IF LessThan(a, b) THEN b ELSE a
MathMin(a, b) == IF LessThan(b, a) THEN b ELSE a

\* if (v): a number is truthy unless it is 0
Truthy(v) == v.num # 0

\* The defaults of the PerformanceOptimizer's constructor.
maxCacheSize == 1000
memoryPoolSize == 100
batchSize == 10

defaultOptimizationConfig ==
    [enableGestureCaching  |-> TRUE,
     enableMemoryPooling   |-> TRUE,
     enableBatchProcessing |-> TRUE,
     maxCacheSize          |-> Number(maxCacheSize),
     memoryPoolSize        |-> Number(memoryPoolSize),
     batchSize             |-> Number(batchSize)]

\* The defaults of the MemoryManager's constructor.
maxMemoryUsage == 50
gcThreshold == 40
poolSize == 100

defaultMemoryConfig ==
    [maxMemoryUsage         |-> Number(maxMemoryUsage),
     gcThreshold            |-> Number(gcThreshold),
     enableMemoryMonitoring |-> TRUE,
     enableAutomaticGC      |-> TRUE,
     enableMemoryPooling    |-> TRUE,
     poolSize               |-> Number(poolSize)]

\* The longest a pool, a cache or a queue grows in a behaviour that a
\* specification follows.
MaxPoolLength == 3

\* Array.pop, Array.splice(start) and Array.splice(0, n)
pop(array) == SubSeq(array, 1, Len(array) - 1)
last(array) == array[Len(array)]

\* The whole part of a fraction that is >= 0.
Floor(v) == v.num \div v.den

\* The number of times  for (let i = from; i < to; i++)  runs its body.
Iterations(from, to) ==
    IF ~LessThan(Number(from), to) THEN 0
    ELSE IF to.num % to.den = 0 THEN Floor(to) - from
         ELSE Floor(to) + 1 - from

\* the array after  for (i = 0; i < n; i++) array.push(obj)
RECURSIVE pushTimes(_, _, _)
pushTimes(array, obj, n) ==
    IF n <= 0 THEN array ELSE pushTimes(Append(array, obj), obj, n - 1)

\* array.splice(start), start >= 0: the elements from index start on are
\* removed; a fractional start is truncated.
spliceFrom(array, start) ==
    SubSeq(array, 1, IF Floor(start) < Len(array) THEN Floor(start)
                     ELSE Len(array))

\* A pooled object of the PerformanceOptimizer.  Its fields y, timestamp,
\* identifier and pressure are written and reset exactly as x is and are
\* left out; reset tells whether the object has a reset method.
createPooledObject == [x |-> 0, reset |-> TRUE]

\* if (obj.reset) obj.reset()
resetPooledObject(obj) == IF obj.reset THEN [obj EXCEPT !.x = 0] ELSE obj

\* A pooled object of the MemoryManager.  Its id and timestamp are read by
\* nothing and are left out.
Payload == [kind |-> "payload"]
MemoryManager_createPooledObject == [data |-> Null, reset |-> TRUE]
MemoryManager_resetPooledObject(obj) ==
    IF obj.reset THEN [obj EXCEPT !.data = Null] ELSE obj

initializeMemoryPool(cfg, pool) ==
    IF cfg.enableMemoryPooling
    THEN pushTimes(pool, createPooledObject, Iterations(0, cfg.memoryPoolSize))
    ELSE pool

initializeObjectPool(cfg, pool) ==
    IF cfg.enableMemoryPooling
    THEN pushTimes(pool, MemoryManager_createPooledObject,
                   Iterations(0, cfg.poolSize))
    ELSE pool

\* A call of a method of the resource managers: the touch-control objects
\* are left alone.
ResourceCall(name, arg) ==
    /\ op' = CalledWith(name, 0, TRUE, arg)
    /\ effects' = NoEffects
    /\ UNCHANGED <<tick, touchControl>>

\* A returnPooledObject that pushes whatever the pool's length.
returnPooledObject_Unbounded(obj) ==
    /\ memoryPool' = IF optimizerConfig.enableMemoryPooling
                     THEN Append(memoryPool, resetPooledObject(obj))
                     ELSE memoryPool
    /\ ret' = Null
    /\ ResourceCall("returnPooledObject", obj)
    /\ UNCHANGED <<optimizerConfig, caching, batching, performanceMetrics,
                   optimizations, memoryManager>>

getPooledObject ==
    /\ IF optimizerConfig.enableMemoryPooling /\ Len(memoryPool) > 0
       THEN /\ ret' = last(memoryPool)
            /\ memoryPool' = pop(memoryPool)
       ELSE /\ ret' = createPooledObject
            /\ memoryPool' = memoryPool
    /\ ResourceCall("getPooledObject", Null)
    /\ UNCHANGED <<optimizerConfig, caching, batching, performanceMetrics,
                   optimizations, memoryManager>>

returnPooledObject(obj) ==
    /\ memoryPool' =
         IF /\ optimizerConfig.enableMemoryPooling
            /\ LessThan(Number(Len(memoryPool)), optimizerConfig.memoryPoolSize)
         THEN Append(memoryPool, resetPooledObject(obj))
         ELSE memoryPool
    /\ ret' = Null
    /\ ResourceCall("returnPooledObject", obj)
    /\ UNCHANGED <<optimizerConfig, caching, batching, performanceMetrics,
                   optimizations, memoryManager>>

MemoryManager_getPooledObject ==
    /\ IF memoryConfig.enableMemoryPooling /\ Len(objectPool) > 0
       THEN /\ ret' = last(objectPool)
            /\ objectPool' = pop(objectPool)
       ELSE /\ ret' = MemoryManager_createPooledObject
            /\ objectPool' = objectPool
    /\ ResourceCall("MemoryManager.getPooledObject", Null)
    /\ UNCHANGED <<optimizer, optimizations, memoryConfig, memoryStats,
                   isMonitoring>>

MemoryManager_returnPooledObject(obj) ==
    /\ objectPool' =
         IF /\ memoryConfig.enableMemoryPooling
            /\ LessThan(Number(Len(objectPool)), memoryConfig.poolSize)
         THEN Append(objectPool, MemoryManager_resetPooledObject(obj))
         ELSE objectPool
    /\ ret' = Null
    /\ ResourceCall("MemoryManager.returnPooledObject", obj)
    /\ UNCHANGED <<optimizer, optimizations, memoryConfig, memoryStats,
                   isMonitoring>>

\* The pool after updateConfig's "adjust pool size if changed".
resizePool(pool, newConfig, field, fresh) ==
    IF field \in DOMAIN newConfig /\ Truthy(newConfig[field])
    THEN LET currentSize == Len(pool)
             targetSize == newConfig[field]
         IN IF LessThan(Number(currentSize), targetSize)
            THEN pushTimes(pool, fresh, Iterations(currentSize, targetSize))
            ELSE IF LessThan(targetSize, Number(currentSize))
                 THEN spliceFrom(pool, targetSize)
                 ELSE pool
    ELSE pool

---------------------------------------------------------------------------
(* PerformanceOptimizer: the result cache.  A Map is the sequence of its   *)
(* entries in insertion order; Map.set of a key that is present replaces   *)
(* the entry where it stands.                                              *)

CacheEntry(key, data, timestamp) ==
    [key |-> key, data |-> data, timestamp |-> timestamp, accessCount |-> 0]

\* The keys of a Map, and the index of a key in it (0 if absent).
keysOf(cache) == {cache[i].key : i \in 1..Len(cache)}
indexOfKey(cache, key) ==
    IF key \in keysOf(cache)
    THEN CHOOSE i \in 1..Len(cache) : cache[i].key = key
    ELSE 0

\* Map.set and Map.delete
cacheSet(cache, key, entry) ==
    IF key \in keysOf(cache)
    THEN [cache EXCEPT ![indexOfKey(cache, key)] = entry]
    ELSE Append(cache, entry)

cacheDelete(cache, key) ==
    LET i == indexOfKey(cache, key)
    IN IF i = 0 THEN cache
       ELSE SubSeq(cache, 1, i - 1) \o SubSeq(cache, i + 1, Len(cache))

\* An eviction by fewest lookups instead of by oldest timestamp.
evictOldestCacheEntry_LeastAccessed(cache) ==
    IF cache = <<>> THEN cache
    ELSE LET i == CHOOSE i \in 1..Len(cache) :
                    /\ \A j \in 1..Len(cache) :
                          cache[i].accessCount <= cache[j].accessCount
                    /\ \A j \in 1..(i - 1) :
                          cache[j].accessCount > cache[i].accessCount
         IN cacheDelete(cache, cache[i].key)

\* The loop keeps the first entry whose timestamp is below that of every
\* entry before it; an empty-string key is falsy and is not deleted.
evictOldestCacheEntry(cache) ==
    IF cache = <<>> THEN cache
    ELSE LET i == CHOOSE i \in 1..Len(cache) :
                    /\ \A j \in 1..Len(cache) :
                          cache[i].timestamp <= cache[j].timestamp
                    /\ \A j \in 1..(i - 1) :
                          cache[j].timestamp > cache[i].timestamp
             oldestKey == cache[i].key
         IN IF oldestKey # "" THEN cacheDelete(cache, oldestKey) ELSE cache

RECURSIVE evictTimes(_, _)
evictTimes(cache, n) ==
    IF n <= 0 THEN cache ELSE evictTimes(evictOldestCacheEntry(cache), n - 1)

\* The keys that are in a cache before an operation and not after its
\* evictions, in Map order.
RECURSIVE removedKeys(_, _)
removedKeys(before, after) ==
    IF before = <<>> THEN <<>>
    ELSE (IF Head(before).key \in keysOf(after) THEN <<>>
          ELSE <<Head(before).key>>) \o removedKeys(Tail(before), after)

\* The cache after the eviction, if any, of cacheGestureResult.
madeRoom(cfg, cache) ==
    IF cfg.enableGestureCaching /\ ~LessThan(Number(Len(cache)), cfg.maxCacheSize)
    THEN evictOldestCacheEntry(cache)
    ELSE cache

\* The cache after cacheGestureResult(key, result) at clock reading t.
cached(cfg, cache, key, result, t) ==
    IF ~cfg.enableGestureCaching THEN cache
    ELSE cacheSet(madeRoom(cfg, cache), key, CacheEntry(key, result, t))

\* A cacheGestureResult without the enableGestureCaching guard.
cacheGestureResult_Unguarded(key, result) ==
    LET on == [optimizerConfig EXCEPT !.enableGestureCaching = TRUE]
    IN /\ gestureCache' = cached(on, gestureCache, key, result, now)
       /\ shadowCache' = cached(on, shadowCache, key, result, now)
       /\ evicted' = removedKeys(gestureCache, madeRoom(on, gestureCache))
       /\ ret' = Null
       /\ ResourceCall("cacheGestureResult", [key |-> key, result |-> result])
       /\ UNCHANGED <<optimizerConfig, memoryPool, batching, performanceMetrics,
                      optimizations, memoryManager>>

\* The second run makes the same insertion at the same clock reading.
cacheGestureResult(key, result) ==
    /\ gestureCache' = cached(optimizerConfig, gestureCache, key, result, now)
    /\ shadowCache' = cached(optimizerConfig, shadowCache, key, result, now)
    /\ evicted' =
         removedKeys(gestureCache, madeRoom(optimizerConfig, gestureCache))
    /\ ret' = Null
    /\ ResourceCall("cacheGestureResult", [key |-> key, result |-> result])
    /\ UNCHANGED <<optimizerConfig, memoryPool, batching, performanceMetrics,
                   optimizations, memoryManager>>

\* The second run does not make the lookup.
getCachedGestureResult(key) ==
    /\ IF optimizerConfig.enableGestureCaching /\ key \in keysOf(gestureCache)
       THEN LET i == indexOfKey(gestureCache, key)
            IN /\ gestureCache' =
                    [gestureCache EXCEPT ![i].accessCount = @ + 1]
               /\ ret' = [kind |-> "data", data |-> gestureCache[i].data]
       ELSE /\ gestureCache' = gestureCache
            /\ ret' = Null
    /\ ResourceCall("getCachedGestureResult", [key |-> key])
    /\ UNCHANGED <<optimizerConfig, shadowCache, evicted, memoryPool,
                   batching, performanceMetrics, optimizations,
                   memoryManager>>

---------------------------------------------------------------------------
(* PerformanceOptimizer: the batch queue.  processBatch is an async        *)
(* function: a call runs up to its await inside the caller, and the rest   *)
(* (catch, finally) runs when the promise of processBatchItems settles.    *)
(* That promise is resolved by the setTimeout callback of                  *)
(* processBatchItems, after it has given every item to processItem; the    *)
(* continuation of the await is a microtask and runs before any other      *)
(* callback or call.  timers is the queue of pending setTimeout(..., 0)    *)
(* callbacks, which fire in the order they were set.                       *)

\* The items a client may enqueue.  processItem throws for an item of
\* Failing and returns for any other.
Items == {1, 2}
Failing == {2}

\* The pending callbacks.
ItemsCallback(batch) == [callback |-> "processBatchItems", batch |-> batch]
ProcessBatchCallback == [callback |-> "processBatch", batch |-> <<>>]

\* A processBatch call waiting at its await; dead when its promise can no
\* longer settle.
Drain(batch) == [batch |-> batch, dead |-> FALSE]

\* A splice that removes the newest items instead of the oldest.
spliced_FromBack(queue, n) ==
    LET k == IF Floor(n) < Len(queue) THEN Floor(n) ELSE Len(queue)
    IN [batch |-> SubSeq(queue, Len(queue) - k + 1, Len(queue)),
        queue |-> SubSeq(queue, 1, Len(queue) - k)]

\* batchQueue.splice(0, n): the items removed and the items left.
spliced(queue, n) ==
    LET k == IF Floor(n) < Len(queue) THEN Floor(n) ELSE Len(queue)
    IN [batch |-> SubSeq(queue, 1, k), queue |-> SubSeq(queue, k + 1, Len(queue))]

\* The batching fields after processBatch() has run up to its await.
processBatch(cfg, queue, busy, inFlight, pending) ==
    IF busy \/ Len(queue) = 0
    THEN [batchQueue |-> queue, isProcessingBatch |-> busy,
          drains |-> inFlight, timers |-> pending]
    ELSE LET s == spliced(queue, cfg.batchSize)
         IN [batchQueue |-> s.queue, isProcessingBatch |-> TRUE,
             drains |-> Append(inFlight, Drain(s.batch)),
             timers |-> Append(pending, ItemsCallback(s.batch))]

\* The items of a batch that forEach gives to processItem: all of them, or
\* those up to the first that throws.
RECURSIVE given(_)
given(batch) ==
    IF batch = <<>> THEN <<>>
    ELSE IF Head(batch) \in Failing THEN <<Head(batch)>>
         ELSE <<Head(batch)>> \o given(Tail(batch))

fails(batch) == \E i \in 1..Len(batch) : batch[i] \in Failing

\* The index of the oldest drain whose promise can still settle: the one
\* the first pending processBatchItems callback belongs to.
oldestLive(inFlight) ==
    CHOOSE i \in 1..Len(inFlight) :
        /\ ~inFlight[i].dead
        /\ \A j \in 1..(i - 1) : inFlight[j].dead

\* The items enqueued and not discarded: processed, queued or in a batch.
RECURSIVE inBatches(_)
inBatches(inFlight) ==
    IF inFlight = <<>> THEN 0
    ELSE Len(Head(inFlight).batch) + inBatches(Tail(inFlight))

held == Len(processed) + Len(batchQueue) + inBatches(drains)

\* An addToBatch that processes the batch before it returns.
addToBatch_DrainsInline(item) ==
    /\ optimizerConfig.enableBatchProcessing
    /\ ~LessThan(Number(Len(batchQueue) + 1), optimizerConfig.batchSize)
    /\ ~isProcessingBatch
    /\ LET s == spliced(Append(batchQueue, item), optimizerConfig.batchSize)
       IN /\ batchQueue' = s.queue
          /\ processed' = processed \o s.batch
    /\ ret' = Null
    /\ ResourceCall("addToBatch", [item |-> item])
    /\ UNCHANGED <<optimizerConfig, caching, memoryPool, isProcessingBatch,
                   drains, timers, performanceMetrics, optimizations,
                   memoryManager>>

addToBatch(item) ==
    /\ IF ~optimizerConfig.enableBatchProcessing
       THEN UNCHANGED <<batchQueue, isProcessingBatch, drains, timers>>
       ELSE LET queue == Append(batchQueue, item)
                r == IF ~LessThan(Number(Len(queue)), optimizerConfig.batchSize)
                     THEN processBatch(optimizerConfig, queue,
                                       isProcessingBatch, drains, timers)
                     ELSE [batchQueue |-> queue,
                           isProcessingBatch |-> isProcessingBatch,
                           drains |-> drains, timers |-> timers]
            IN /\ batchQueue' = r.batchQueue
               /\ isProcessingBatch' = r.isProcessingBatch
               /\ drains' = r.drains
               /\ timers' = r.timers
    /\ ret' = Null
    /\ ResourceCall("addToBatch", [item |-> item])
    /\ UNCHANGED <<optimizerConfig, caching, memoryPool, processed,
                   performanceMetrics, optimizations, memoryManager>>

\* The setTimeout callback of processBatchItems, with the continuation of
\* the await it resolves.  When processItem throws, the exception leaves
\* the callback, resolve() is not reached and the promise never settles.
processBatchItemsTimer ==
    /\ timers # <<>>
    /\ Head(timers).callback = "processBatchItems"
    /\ LET batch == Head(timers).batch
           i == oldestLive(drains)
       IN /\ processed' = processed \o given(batch)
          /\ IF fails(batch)
             THEN /\ drains' = [drains EXCEPT ![i].dead = TRUE]
                  /\ timers' = Tail(timers)
                  /\ effects' = [NoEffects EXCEPT !.threw = TRUE]
                  /\ UNCHANGED isProcessingBatch
             ELSE /\ drains' = SubSeq(drains, 1, i - 1)
                                  \o SubSeq(drains, i + 1, Len(drains))
                  /\ isProcessingBatch' = FALSE
                  /\ timers' = IF Len(batchQueue) > 0
                               THEN Append(Tail(timers), ProcessBatchCallback)
                               ELSE Tail(timers)
                  /\ effects' = NoEffects
          /\ op' = CalledWith("processBatchItemsTimer", 0, TRUE,
                              [batch |-> batch])
    /\ ret' = Null
    /\ UNCHANGED <<tick, touchControl>>
    /\ UNCHANGED <<optimizerConfig, caching, memoryPool, batchQueue,
                   performanceMetrics, optimizations, memoryManager>>

\* The callback of  setTimeout(() => this.processBatch(), 0).
processBatchTimer ==
    /\ timers # <<>>
    /\ Head(timers).callback = "processBatch"
    /\ LET r == processBatch(optimizerConfig, batchQueue, isProcessingBatch,
                             drains, Tail(timers))
       IN /\ batchQueue' = r.batchQueue
          /\ isProcessingBatch' = r.isProcessingBatch
          /\ drains' = r.drains
          /\ timers' = r.timers
    /\ ret' = Null
    /\ ResourceCall("processBatchTimer", Null)
    /\ UNCHANGED <<optimizerConfig, caching, memoryPool, processed,
                   performanceMetrics, optimizations, memoryManager>>

---------------------------------------------------------------------------
(* PerformanceOptimizer: adaptive tuning, updateConfig, reset, destroy.    *)
(* A metrics snapshot carries memoryUsage (MB), gestureRecognitionTime     *)
(* (ms) and errorRate, kept in hundredths (errorRate > 0.1 is              *)
(* errorRate > 10 hundredths).                                             *)

Plus(v, n) == Ratio(v.num + n * v.den, v.den)
Minus(a, b) == Ratio(a.num * b.den - b.num * a.den, a.den * b.den)

tunedCacheSize(size, metrics) ==
    IF metrics.memoryUsage > 40
    THEN MathMax(Number(100), Times(size, 4, 5))
    ELSE IF metrics.memoryUsage < 20
         THEN MathMin(Number(2000), Times(size, 6, 5))
         ELSE size

tunedBatchSize(size, metrics) ==
    IF metrics.gestureRecognitionTime > 50
    THEN MathMax(Number(5), Plus(size, -1))
    ELSE IF metrics.gestureRecognitionTime < 20
         THEN MathMin(Number(20), Plus(size, 1))
         ELSE size

tunedCaching(enabled, metrics) ==
    IF metrics.errorRate > 10 THEN FALSE
    ELSE IF metrics.errorRate < 2 THEN TRUE
         ELSE enabled

optimizeGestureRecognition(metrics) ==
    /\ performanceMetrics' = metrics
    /\ optimizerConfig' =
         [optimizerConfig EXCEPT
            !.maxCacheSize = tunedCacheSize(@, metrics),
            !.batchSize = tunedBatchSize(@, metrics),
            !.enableGestureCaching = tunedCaching(@, metrics)]
    /\ optimizations' = optimizations + 1
    /\ ret' = Null
    /\ ResourceCall("optimizeGestureRecognition", metrics)
    /\ UNCHANGED <<caching, memoryPool, batching, memoryManager>>

\* "Adjust cache size if changed": the oldest entries are evicted until
\* the cache fits.
trimmed(cache, newConfig) ==
    IF /\ "maxCacheSize" \in DOMAIN newConfig
       /\ Truthy(newConfig.maxCacheSize)
       /\ LessThan(newConfig.maxCacheSize, Number(Len(cache)))
    THEN evictTimes(cache,
            Iterations(0, Minus(Number(Len(cache)), newConfig.maxCacheSize)))
    ELSE cache

PerformanceOptimizer_updateConfig(newConfig) ==
    /\ optimizerConfig' = Merge(optimizerConfig, newConfig)
    /\ memoryPool' = resizePool(memoryPool, newConfig, "memoryPoolSize",
                                createPooledObject)
    /\ gestureCache' = trimmed(gestureCache, newConfig)
    /\ shadowCache' = trimmed(shadowCache, newConfig)
    /\ evicted' = removedKeys(gestureCache, gestureCache')
    /\ ret' = Null
    /\ ResourceCall("updateConfig", newConfig)
    /\ UNCHANGED <<batching, performanceMetrics, optimizations, memoryManager>>

\* reset() sets the fields of the object; a processBatch call waiting at
\* its await and the callbacks already set are not cancelled.
PerformanceOptimizer_reset ==
    /\ gestureCache' = <<>>
    /\ shadowCache' = <<>>
    /\ evicted' = evicted
    /\ batchQueue' = <<>>
    /\ isProcessingBatch' = FALSE
    /\ performanceMetrics' = Null
    /\ memoryPool' = initializeMemoryPool(optimizerConfig, memoryPool)
    /\ Len(memoryPool') <= MaxPoolLength
    /\ ret' = Null
    /\ ResourceCall("reset", Null)
    /\ UNCHANGED <<optimizerConfig, drains, timers, processed, optimizations,
                   memoryManager>>

PerformanceOptimizer_destroy ==
    /\ gestureCache' = <<>>
    /\ shadowCache' = <<>>
    /\ evicted' = evicted
    /\ memoryPool' = <<>>
    /\ batchQueue' = <<>>
    /\ isProcessingBatch' = FALSE
    /\ performanceMetrics' = Null
    /\ ret' = Null
    /\ ResourceCall("destroy", Null)
    /\ UNCHANGED <<optimizerConfig, drains, timers, processed, optimizations,
                   memoryManager>>

---------------------------------------------------------------------------
(* MemoryManager: monitoring, tuning, updateConfig, reset, destroy.        *)
(* memoryStats keeps used, total (MB) and usage (percent); available,      *)
(* gcCount and lastGCTime are read by nothing that changes a field and     *)
(* are left out, as is the performanceMetrics field.                       *)

NoMemoryStats == [used |-> Number(0), total |-> Number(0), usage |-> Number(0)]

\* updateMemoryStats: with performance.memory the heap sizes are the
\* environment's (sample); without it (sample = Null) used is estimated
\* from the pool, 0.001 MB an object, and total is maxMemoryUsage.
updateMemoryStats(cfg, pool, sample) ==
    LET used == IF sample # Null THEN sample.used ELSE Ratio(Len(pool), 1000)
        total == IF sample # Null THEN sample.total ELSE cfg.maxMemoryUsage
    IN [used |-> used, total |-> total,
        usage |-> Ratio(used.num * total.den * 100, used.den * total.num)]

\* performGarbageCollection: the pool is halved when usage is above 80.
performGarbageCollection(stats, pool) ==
    IF LessThan(Number(80), stats.usage)
    THEN SubSeq(pool, 1, Len(pool) \div 2)
    ELSE pool

\* The setInterval callback of startMemoryMonitoring: updateMemoryStats,
\* then checkMemoryThreshold.
memoryMonitoringTimer(sample) ==
    /\ isMonitoring
    /\ memoryStats' = updateMemoryStats(memoryConfig, objectPool, sample)
    /\ objectPool' =
         IF /\ memoryConfig.enableAutomaticGC
            /\ LessThan(memoryConfig.gcThreshold, memoryStats'.used)
         THEN performGarbageCollection(memoryStats', objectPool)
         ELSE objectPool
    /\ ret' = Null
    /\ ResourceCall("memoryMonitoringTimer", sample)
    /\ UNCHANGED <<optimizer, optimizations, memoryConfig, isMonitoring>>

tunedThreshold(threshold, metrics) ==
    IF metrics.memoryUsage > 40
    THEN MathMax(Number(20), Times(threshold, 9, 10))
    ELSE IF metrics.memoryUsage < 20
         THEN MathMin(Number(50), Times(threshold, 11, 10))
         ELSE threshold

tunedPoolSize(size, stats) ==
    IF LessThan(Number(80), stats.usage)
    THEN MathMax(Number(50), Times(size, 4, 5))
    ELSE IF LessThan(stats.usage, Number(50))
         THEN MathMin(Number(200), Times(size, 6, 5))
         ELSE size

optimizeMemory(metrics) ==
    /\ memoryConfig' =
         [memoryConfig EXCEPT
            !.gcThreshold = tunedThreshold(@, metrics),
            !.poolSize = tunedPoolSize(@, memoryStats)]
    /\ optimizations' = optimizations + 1
    /\ ret' = Null
    /\ ResourceCall("optimizeMemory", metrics)
    /\ UNCHANGED <<optimizer, objectPool, memoryStats, isMonitoring>>

\* startMemoryMonitoring after stopMemoryMonitoring
restarted(cfg) == cfg.enableMemoryMonitoring

MemoryManager_updateConfig(newConfig) ==
    /\ memoryConfig' = Merge(memoryConfig, newConfig)
    /\ isMonitoring' =
         IF "gcInterval" \in DOMAIN newConfig /\ Truthy(newConfig.gcInterval)
         THEN restarted(memoryConfig')
         ELSE isMonitoring
    /\ objectPool' = resizePool(objectPool, newConfig, "poolSize",
                                MemoryManager_createPooledObject)
    /\ ret' = Null
    /\ ResourceCall("MemoryManager.updateConfig", newConfig)
    /\ UNCHANGED <<optimizer, optimizations, memoryStats>>

MemoryManager_reset ==
    /\ objectPool' = initializeObjectPool(memoryConfig, <<>>)
    /\ memoryStats' = NoMemoryStats
    /\ ret' = Null
    /\ ResourceCall("MemoryManager.reset", Null)
    /\ UNCHANGED <<optimizer, optimizations, memoryConfig, isMonitoring>>

MemoryManager_destroy ==
    /\ isMonitoring' = FALSE
    /\ objectPool' = <<>>
    /\ ret' = Null
    /\ ResourceCall("MemoryManager.destroy", Null)
    /\ UNCHANGED <<optimizer, optimizations, memoryConfig, memoryStats>>

---------------------------------------------------------------------------
(* Specifications of the resource managers.  The touch-control objects are *)
(* as constructed and are left alone.                                      *)

\* The PerformanceOptimizer after its constructor, given config.
OptimizerConstructed(cfg) ==
    /\ optimizerConfig = Merge(defaultOptimizationConfig, cfg)
    /\ gestureCache = <<>>
    /\ shadowCache = <<>>
    /\ evicted = <<>>
    /\ memoryPool = initializeMemoryPool(optimizerConfig, <<>>)
    /\ batchQueue = <<>>
    /\ isProcessingBatch = FALSE
    /\ performanceMetrics = Null
    /\ drains = <<>>
    /\ timers = <<>>
    /\ processed = <<>>
    /\ optimizations = 0

\* The MemoryManager after its constructor, given config.
MemoryManagerConstructed(cfg) ==
    /\ memoryConfig = Merge(defaultMemoryConfig, cfg)
    /\ memoryStats = NoMemoryStats
    /\ objectPool = initializeObjectPool(memoryConfig, <<>>)
    /\ isMonitoring = memoryConfig.enableMemoryMonitoring

NoMemoryManager ==
    /\ memoryConfig = Untracked
    /\ memoryStats = Untracked
    /\ objectPool = Untracked
    /\ isMonitoring = Untracked

TouchControlIdle ==
    /\ Constructed
    /\ gestureMetrics = Untracked
    /\ press = Untracked
    /\ pinch = Untracked

\* SpecPool.  The two object pools under getPooledObject,
\* returnPooledObject, updateConfig, reset and destroy.  The MemoryManager
\* is constructed without monitoring, so no interval callback runs.
MaxPoolSize == 2

PoolSizes == {Number(k) : k \in 0..MaxPoolSize}

\* The objects a client may return: fresh, written to, and foreign (without
\* a reset method).
ReturnedObjects ==
    {[x |-> 0, reset |-> TRUE], [x |-> 7, reset |-> TRUE],
     [x |-> 7, reset |-> FALSE]}

MemoryManager_ReturnedObjects ==
    {[data |-> Null, reset |-> TRUE], [data |-> Payload, reset |-> TRUE],
     [data |-> Payload, reset |-> FALSE]}

InitPool ==
    /\ TouchControlIdle
    /\ \E size \in PoolSizes, pooling \in BOOLEAN :
          OptimizerConstructed([memoryPoolSize |-> size,
                                enableMemoryPooling |-> pooling])
    /\ \E size \in PoolSizes, pooling \in BOOLEAN :
          MemoryManagerConstructed([poolSize |-> size,
                                    enableMemoryPooling |-> pooling,
                                    enableMemoryMonitoring |-> FALSE])

NextPool ==
    \/ getPooledObject
    \/ \E obj \in ReturnedObjects : returnPooledObject(obj)
    \/ \E size \in PoolSizes :
          PerformanceOptimizer_updateConfig([memoryPoolSize |-> size])
    \/ PerformanceOptimizer_reset
    \/ PerformanceOptimizer_destroy
    \/ MemoryManager_getPooledObject
    \/ \E obj \in MemoryManager_ReturnedObjects :
          MemoryManager_returnPooledObject(obj)
    \/ \E size \in PoolSizes : MemoryManager_updateConfig([poolSize |-> size])
    \/ MemoryManager_reset
    \/ MemoryManager_destroy

SpecPool == InitPool /\ [][NextPool]_vars

\* SpecCache.  The result cache under cacheGestureResult,
\* getCachedGestureResult, updateConfig, reset and destroy, with the clock
\* moving between calls.  The optimizer is constructed without pooling, so
\* its pool stays empty.
MaxCacheSize == 2
MaxCacheTicks == 1

\* The most lookups counted in the entries of the cache.
MaxAccesses == 1

CacheSizes == {Number(k) : k \in 1..MaxCacheSize}
Keys == {"a", "b", "c"}
Results == {"TAP", "PAN"}

RECURSIVE accesses(_)
accesses(cache) ==
    IF cache = <<>> THEN 0 ELSE Head(cache).accessCount + accesses(Tail(cache))

InitCache ==
    /\ TouchControlIdle
    /\ \E size \in CacheSizes, on \in BOOLEAN :
          OptimizerConstructed([maxCacheSize |-> size,
                                enableGestureCaching |-> on,
                                enableMemoryPooling |-> FALSE])
    /\ NoMemoryManager

NextCache ==
    \/ \E key \in Keys, result \in Results : cacheGestureResult(key, result)
    \/ \E key \in Keys :
          accesses(gestureCache) < MaxAccesses /\ getCachedGestureResult(key)
    \/ \E size \in CacheSizes :
          PerformanceOptimizer_updateConfig([maxCacheSize |-> size])
    \/ \E enabled \in BOOLEAN :
          PerformanceOptimizer_updateConfig([enableGestureCaching |-> enabled])
    \/ PerformanceOptimizer_reset
    \/ PerformanceOptimizer_destroy
    \/ \E k \in 1..MaxCacheTicks : Tick(k)

SpecCache == InitCache /\ [][NextCache]_vars

\* SpecBatch.  The batch queue under addToBatch, the two timer callbacks,
\* updateConfig, reset and destroy.  A batchSize is at least 1.
MaxBatchSize == 2

\* The most items a behaviour holds: processed, queued or in a batch.
MaxItems == 4

BatchSizes == {Number(k) : k \in 1..MaxBatchSize}

InitBatch ==
    /\ TouchControlIdle
    /\ \E size \in BatchSizes, enabled \in BOOLEAN :
          OptimizerConstructed([batchSize |-> size,
                                enableBatchProcessing |-> enabled,
                                enableMemoryPooling |-> FALSE])
    /\ NoMemoryManager

NextBatch ==
    \/ \E item \in Items : held < MaxItems /\ addToBatch(item)
    \/ processBatchItemsTimer
    \/ processBatchTimer
    \/ \E size \in BatchSizes :
          PerformanceOptimizer_updateConfig([batchSize |-> size])
    \/ \E enabled \in BOOLEAN :
          PerformanceOptimizer_updateConfig([enableBatchProcessing |-> enabled])
    \/ PerformanceOptimizer_reset
    \/ PerformanceOptimizer_destroy

SpecBatch == InitBatch /\ [][NextBatch]_vars

\* SpecTuning.  The adaptive tuning of both managers, from constructor
\* configurations below, within and above the ranges the adjustments aim
\* at, with the MemoryManager's monitoring interval running.  Both objects
\* are constructed without pooling, so their pools stay empty.
MaxOptimizations == 2

\* The sizes and thresholds a constructor is given: all below their
\* range, all the defaults, or all above their range.
StartOptimizerConfigs ==
    {[maxCacheSize |-> Number(50), batchSize |-> Number(2)],
     [maxCacheSize |-> Number(maxCacheSize), batchSize |-> Number(batchSize)],
     [maxCacheSize |-> Number(3000), batchSize |-> Number(30)]}

StartMemoryConfigs ==
    {[gcThreshold |-> Number(10), poolSize |-> Number(20)],
     [gcThreshold |-> Number(gcThreshold), poolSize |-> Number(poolSize)],
     [gcThreshold |-> Number(60), poolSize |-> Number(300)]}

\* The snapshots of the PerformanceMonitor: each metric below its low
\* threshold, between the two, and above its high threshold.
MetricsSnapshots ==
    {[memoryUsage |-> m, gestureRecognitionTime |-> t, errorRate |-> e] :
        m \in {10, 30, 50}, t \in {10, 30, 60}, e \in {0, 5, 20}}

\* What performance.memory reports (MB), or Null where there is none.
MemorySamples ==
    {Null} \cup {[used |-> Number(u), total |-> Number(50)] : u \in {30, 45}}

InitTuning ==
    /\ TouchControlIdle
    /\ \E cfg \in StartOptimizerConfigs :
          OptimizerConstructed(Merge(cfg, [enableMemoryPooling |-> FALSE]))
    /\ \E cfg \in StartMemoryConfigs :
          MemoryManagerConstructed(Merge(cfg, [enableMemoryPooling |-> FALSE]))

NextTuning ==
    \/ \E metrics \in MetricsSnapshots :
          /\ optimizations < MaxOptimizations
          /\ optimizeGestureRecognition(metrics)
    \/ \E metrics \in MetricsSnapshots :
          /\ optimizations < MaxOptimizations
          /\ optimizeMemory(metrics)
    \/ \E sample \in MemorySamples : memoryMonitoringTimer(sample)

SpecTuning == InitTuning /\ [][NextTuning]_vars

\* SpecBatchLive.  SpecBatch with the event loop running every callback
\* that is due.
SpecBatchLive ==
    /\ InitBatch
    /\ [][NextBatch]_vars
    /\ WF_vars(processBatchItemsTimer)
    /\ WF_vars(processBatchTimer)

---------------------------------------------------------------------------
(* PerformanceMonitor: recordGesture, getMetrics, reset and destroy as a   *)
(* client of the class calls them.  The timings map, memoryUsage,          *)
(* batteryImpact and the time fields of a GestureMetrics (totalTime,       *)
(* averageTime) are read by no rate and are left out.                      *)

MonitorCall(name, arg) ==
    /\ op' = CalledWith(name, 0, TRUE, arg)
    /\ effects' = NoEffects
    /\ UNCHANGED resources
    /\ UNCHANGED <<tick, gestureState, isProcessing, isEnabled, activeTouches,
                   press, multi, gestureConfig, config, touchTargets,
                   gestureCallbacks, pinch>>

\* Array.from(gestureMetrics.values()).reduce((sum, m) => sum + m[field], 0)
reduce(metrics, field) ==
    SumOver([t \in DOMAIN metrics |-> metrics[t][field]], DOMAIN metrics)

\* A getMetrics whose rates are both 0 when nothing was recorded.
getMetrics_ZeroWhenEmpty(metrics) ==
    LET total == reduce(metrics, "count")
        successful == reduce(metrics, "successCount")
    IN [errorRate   |-> IF total > 0
                        THEN Ratio(total - successful, total)
                        ELSE Number(0),
        successRate |-> IF total > 0
                        THEN Ratio(successful, total)
                        ELSE Number(0)]

\* The errorRate and successRate of the snapshot.
getMetrics(metrics) ==
    LET total == reduce(metrics, "count")
        successful == reduce(metrics, "successCount")
    IN [errorRate   |-> IF total > 0
                        THEN Ratio(total - successful, total)
                        ELSE Number(0),
        successRate |-> IF total > 0
                        THEN Ratio(successful, total)
                        ELSE Number(1)]

PerformanceMonitor_recordGesture(gestureType, success) ==
    /\ gestureMetrics' = recordGesture(gestureMetrics, gestureType, success)
    /\ ret' = Null
    /\ MonitorCall("recordGesture",
                   [gestureType |-> gestureType, success |-> success])

PerformanceMonitor_getMetrics ==
    /\ ret' = getMetrics(gestureMetrics)
    /\ gestureMetrics' = gestureMetrics
    /\ MonitorCall("getMetrics", Null)

PerformanceMonitor_reset ==
    /\ gestureMetrics' = initializeGestureMetrics
    /\ ret' = Null
    /\ MonitorCall("PerformanceMonitor.reset", Null)

\* destroy: gestureMetrics.clear()
PerformanceMonitor_destroy ==
    /\ gestureMetrics' = EmptyMap
    /\ ret' = Null
    /\ MonitorCall("PerformanceMonitor.destroy", Null)

\* SpecMonitor.  A PerformanceMonitor of its own under recordGesture,
\* getMetrics, reset and destroy.
MaxRecorded == 3

\* The gesture types recorded.
RecordedTypes == {"TAP", "PAN", "PINCH"}

InitMonitor ==
    /\ Constructed
    /\ NoResources
    /\ gestureMetrics = initializeGestureMetrics
    /\ press = Untracked
    /\ pinch = Untracked

NextMonitor ==
    \/ \E gestureType \in RecordedTypes, success \in BOOLEAN :
          /\ reduce(gestureMetrics, "count") < MaxRecorded
          /\ PerformanceMonitor_recordGesture(gestureType, success)
    \/ PerformanceMonitor_getMetrics
    \/ PerformanceMonitor_reset
    \/ PerformanceMonitor_destroy

SpecMonitor == InitMonitor /\ [][NextMonitor]_vars

---------------------------------------------------------------------------
(* The direction of a displacement: the utility calculateGestureDirection  *)
(* and the recognizer's recognizeSwipeDirection, applied to the same       *)
(* deltas.                                                                 *)

PureCall(name, arg) ==
    /\ op' = CalledWith(name, 0, TRUE, arg)
    /\ effects' = NoEffects
    /\ UNCHANGED <<tick, touchControl, resources>>

\* A calculateGestureDirection that gives a tie to the horizontal axis.
calculateGestureDirection_TiesHorizontal(deltaX, deltaY) ==
    LET absX == Abs(deltaX)
        absY == Abs(deltaY)
    IN IF absX >= absY
       THEN (IF deltaX > 0 THEN "right" ELSE "left")
       ELSE (IF deltaY > 0 THEN "down" ELSE "up")

calculateGestureDirection(deltaX, deltaY) ==
    LET absX == Abs(deltaX)
        absY == Abs(deltaY)
    IN IF absX > absY
       THEN (IF deltaX > 0 THEN "right" ELSE "left")
       ELSE (IF deltaY > 0 THEN "down" ELSE "up")

calculateGestureDirectionCall(deltaX, deltaY) ==
    /\ ret' = [kind |-> "direction",
               direction |-> calculateGestureDirection(deltaX, deltaY)]
    /\ PureCall("calculateGestureDirection",
                [deltaX |-> deltaX, deltaY |-> deltaY])

\* recognizeSwipeDirection of a gesture state with these deltas.
recognizeSwipeDirectionCall(deltaX, deltaY) ==
    /\ ret' = [kind |-> "type",
               type |-> recognizeSwipeDirection([deltaX |-> deltaX,
                                                 deltaY |-> deltaY])]
    /\ PureCall("recognizeSwipeDirection",
                [deltaX |-> deltaX, deltaY |-> deltaY])

\* SpecDirection.  Both functions over every displacement of up to MaxDelta
\* px along each axis.
MaxDelta == 5

Deltas == (-MaxDelta)..MaxDelta

NextDirection ==
    \/ \E deltaX \in Deltas, deltaY \in Deltas :
          calculateGestureDirectionCall(deltaX, deltaY)
    \/ \E deltaX \in Deltas, deltaY \in Deltas :
          recognizeSwipeDirectionCall(deltaX, deltaY)

SpecDirection == Init /\ [][NextDirection]_vars

\* SpecClassify.  One finger, as in SpecSingle, with positions 5 px, 10 px
\* (minDistance), 60 px and 100 px from the first and a clock that passes
\* maxDuration, so that a release meets every rule of recognizeGesture and
\* the boundaries between them: 60 px in 200 ms is velocityThreshold.
MaxLateTicks == 3

ClassifyPoints == { <<100, 100>>, <<103, 104>>, <<106, 108>>, <<160, 100>>,
                    <<200, 100>> }

ClassifyTouches == {TouchPoint(p, now, 1) : p \in ClassifyPoints}

NextClassify ==
    \/ \E touch \in ClassifyTouches :
          touch.identifier \notin DOMAIN activeTouches /\ handleTouchStart(touch)
    \/ \E touch \in ClassifyTouches :
          touch.identifier \in DOMAIN activeTouches /\ handleTouchMove(touch)
    \/ \E touch \in ClassifyTouches :
          touch.identifier \in DOMAIN activeTouches /\ handleTouchEnd(touch)
    \/ \E enabled \in BOOLEAN : setEnabled(enabled)
    \/ \E k \in 1..MaxLateTicks : Tick(k)

SpecClassify == Init /\ [][NextClassify]_vars

\* SpecTrim.  The result cache filled to the lowest capacity the tuning
\* can lower (anything above 100 entries), then tuned and resized.  The
\* client inserts distinct keys, the n-th being "n"; the clock stands still.
MaxEntries == 101

\* Inserts made in a behaviour beyond the first MaxEntries.
MaxFurtherEntries == 1

\* The number of insertions made: the newest key is the last of the Map.
insertions ==
    IF gestureCache = <<>> THEN 0
    ELSE CHOOSE n \in 1..(MaxEntries + MaxFurtherEntries) :
            ToString(n) = last(gestureCache).key

\* The key of the next insertion.
nextKey == ToString(insertions + 1)

\* The snapshots that differ in memoryUsage alone.
MemorySnapshots ==
    {metrics \in MetricsSnapshots :
        metrics.gestureRecognitionTime = 30 /\ metrics.errorRate = 5}

InitTrim ==
    /\ TouchControlIdle
    /\ OptimizerConstructed([maxCacheSize |-> Number(MaxEntries),
                             enableMemoryPooling |-> FALSE])
    /\ NoMemoryManager

NextTrim ==
    \/ /\ insertions < MaxEntries + MaxFurtherEntries
       /\ cacheGestureResult(nextKey, "TAP")
    \/ \E metrics \in MemorySnapshots :
          /\ optimizations < MaxOptimizations
          /\ optimizeGestureRecognition(metrics)
    \/ \E size \in {Number(MaxEntries - 1), Number(MaxEntries)} :
          PerformanceOptimizer_updateConfig([maxCacheSize |-> size])

SpecTrim == InitTrim /\ [][NextTrim]_vars

\* performGarbageCollection() as a client calls it.
MemoryManager_performGarbageCollection ==
    /\ objectPool' = performGarbageCollection(memoryStats, objectPool)
    /\ ret' = Null
    /\ ResourceCall("MemoryManager.performGarbageCollection", Null)
    /\ UNCHANGED <<optimizer, optimizations, memoryConfig, memoryStats,
                   isMonitoring>>

\* SpecShrink.  A MemoryManager with pooling and monitoring on and a pool
\* just above the lowest capacity the tuning can lower (50), under every
\* method that touches the pool or its capacity.  The objects returned
\* have a reset method, so the pool's objects are all alike.
MaxPooled == 51

\* The most optimizeMemory calls of a behaviour.
MaxShrinks == 1

\* What performance.memory reports (MB): nothing, a heap 40% used and a
\* heap more than 80% used with less than gcThreshold in use.
ShrinkSamples ==
    {Null, [used |-> Number(20), total |-> Number(50)],
     [used |-> Number(30), total |-> Number(35)]}

InitShrink ==
    /\ TouchControlIdle
    /\ OptimizerConstructed([enableMemoryPooling |-> FALSE])
    /\ MemoryManagerConstructed([poolSize |-> Number(MaxPooled)])

NextShrink ==
    \/ MemoryManager_getPooledObject
    \/ MemoryManager_returnPooledObject([data |-> Payload, reset |-> TRUE])
    \/ \E metrics \in MemorySnapshots :
          /\ optimizations < MaxShrinks
          /\ metrics.memoryUsage = 30
          /\ optimizeMemory(metrics)
    \/ \E sample \in ShrinkSamples : memoryMonitoringTimer(sample)
    \/ MemoryManager_performGarbageCollection
    \/ MemoryManager_updateConfig([poolSize |-> Number(MaxPooled)])
    \/ MemoryManager_reset

SpecShrink == InitShrink /\ [][NextShrink]_vars

\* SpecTelemetry.  The calls of SpecManager, with fewer listeners, and the
\* monitor's recordGesture and reset called as well, for the types that
\* have listeners.
MaxTelemetryListeners == 1

NextTelemetry ==
    \/ \E touch \in ManagerTouches : handleTouchStart(touch)
    \/ \E touch \in ManagerTouches : handleTouchMove(touch)
    \/ \E touch \in ManagerTouches :
          totalGestures < MaxGestures /\ handleTouchEnd(touch)
    \/ \E enabled \in BOOLEAN : setEnabled(enabled)
    \/ \E gestureType \in ListenerTypes, callback \in Listeners :
          /\ totalListeners < MaxTelemetryListeners
          /\ onGesture(gestureType, callback)
    \/ \E gestureType \in ListenerTypes, callback \in Listeners :
          offGesture(gestureType, callback)
    \/ \E gestureType \in ListenerTypes, success \in BOOLEAN :
          /\ totalGestures < MaxGestures
          /\ PerformanceMonitor_recordGesture(gestureType, success)
    \/ PerformanceMonitor_reset

SpecTelemetry == InitManager /\ [][NextTelemetry]_vars

\* SpecOrder.  The batch queue as in SpecBatch, with items that can be told
\* apart: the client enqueues at most one item per clock reading, the item
\* enqueued at reading k being k (item 2 makes processItem throw).
MaxOrderTicks == 4

NextOrder ==
    \/ \E k \in 1..MaxOrderTicks : Tick(k)
    \/ op.name = "tick" /\ addToBatch(tick)
    \/ processBatchItemsTimer
    \/ processBatchTimer
    \/ \E size \in BatchSizes :
          PerformanceOptimizer_updateConfig([batchSize |-> size])
    \/ PerformanceOptimizer_reset
    \/ PerformanceOptimizer_destroy

SpecOrder == InitBatch /\ [][NextOrder]_vars

---------------------------------------------------------------------------
(* Vocabulary of the properties.                                           *)

DistSq(a, b) == SumSq(b.x - a.x, b.y - a.y)

\* The last call was onTouchEnd and it returned a GestureEvent of this type.
Returned(type) == ret.kind = "event" /\ ret.type = type

\* The state just after the release of the touch followed in press: since
\* its handleTouchStart, every handler call carried its identifier.
Released ==
    /\ op.name = "handleTouchEnd" /\ op.forwarded
    /\ IsPress(press) /\ press.end # Null

\* d/dt > velocityThreshold, for a squared distance dSq covered in dt ms.
Faster(dSq, dt) ==
    /\ dt > 0
    /\ dSq * velocityThresholdDen * velocityThresholdDen
         > velocityThresholdNum * velocityThresholdNum * dt * dt

\* The swipe along the dominant axis of (dx, dy); equal magnitudes count as
\* vertical.
SwipeOf(dx, dy) ==
    IF Abs(dx) > Abs(dy)
    THEN (IF dx > 0 THEN "SWIPE_RIGHT" ELSE "SWIPE_LEFT")
    ELSE (IF dy > 0 THEN "SWIPE_DOWN" ELSE "SWIPE_UP")

\* The touch b, seen from the touch a, is a swipe: farther than minDistance
\* and faster than velocityThreshold.
SwipeFrom(a, b) ==
    /\ DistSq(a, b) > minDistance * minDistance
    /\ Faster(DistSq(a, b), b.timestamp - a.timestamp)

---------------------------------------------------------------------------
(* Properties of a single touch (SpecSingle).                              *)

\* C1: a single touch released less than minDistance from where it started,
\* less than maxDuration after its onTouchStart, makes onTouchEnd return a
\* TAP event.
C1_TapEmitted ==
    ( /\ Released
      /\ DistSq(press.start, press.end) < minDistance * minDistance
      /\ now - press.at < maxDuration )
    => Returned("TAP")

\* C2: a single touch released less than minDistance from where it started,
\* more than minDuration after its onTouchStart, makes onTouchEnd return a
\* LONG_PRESS event (so does the touch held at (100,100) for 600 ms).
C2_LongPressEmitted ==
    ( /\ Released
      /\ DistSq(press.start, press.end) < minDistance * minDistance
      /\ now - press.at > minDuration )
    => Returned("LONG_PRESS")

\* C3: a single touch that starts, moves farther than minDistance from its
\* start touch at more than velocityThreshold, and is released, makes
\* onTouchEnd return the swipe of the dominant axis of its displacement.
C3_SwipeEmitted ==
    ( /\ Released
      /\ press.moved # Null
      /\ SwipeFrom(press.start, press.moved) )
    => Returned(SwipeOf(press.moved.x - press.start.x,
                        press.moved.y - press.start.y))

\* C4: when onTouchStart(s) is followed directly by onTouchEnd(e), the
\* gesture is classified by e relative to s: an e farther than minDistance
\* from s and faster than velocityThreshold is the swipe of the dominant
\* axis of e - s (SWIPE_RIGHT for (100,100)@t, (200,100)@t+200).
C4_EndTouchClassified ==
    ( /\ Released
      /\ press.moved = Null
      /\ SwipeFrom(press.start, press.end) )
    => Returned(SwipeOf(press.end.x - press.start.x,
                        press.end.y - press.start.y))

---------------------------------------------------------------------------
(* Properties of the recognizer under any interleaving of the handlers for *)
(* two identifiers (Spec).                                                 *)

\* The last call was the onTouchEnd that removed the last identifier of a
\* gesture in flight.
FullyReleased ==
    /\ op.name = "handleTouchEnd" /\ op.forwarded /\ op.wasProcessing
    /\ gestureState.currentTouches = <<>>

\* One of the rules TAP, LONG_PRESS, SWIPE, PAN matches the state gs at t.
SingleTouchRule(gs, t) ==
    LET duration   == t - gs.startTime
        distanceSq == SumSq(gs.deltaX, gs.deltaY)
        minSq      == minDistance * minDistance
    IN \/ distanceSq < minSq /\ duration < maxDuration
       \/ distanceSq < minSq /\ duration > minDuration
       \/ VelocityAbove(gs) /\ distanceSq > minSq
       \/ distanceSq > minSq /\ VelocityBelow(gs)

\* C5: a gesture in which two touches were concurrent and which matches
\* none of TAP, LONG_PRESS, SWIPE, PAN is classified at full release as
\* PINCH if |scale - 1| > scaleThreshold, else as ROTATE if
\* |rotation| > rotationThreshold.
C5_MultiTouchClassified ==
    ( /\ FullyReleased
      /\ multi
      /\ ~SingleTouchRule(gestureState, now)
      /\ \/ ScaleExceedsThreshold(gestureState.scale)
         \/ RotationExceedsThreshold(gestureState.rotation) )
    => Returned(IF ScaleExceedsThreshold(gestureState.scale)
                THEN "PINCH" ELSE "ROTATE")

\* C6: currentTouches never holds two entries with the same identifier.
C6_NoDuplicateIdentifier ==
    gestureState # Null =>
        \A i, j \in 1..Len(gestureState.currentTouches) :
            i # j => gestureState.currentTouches[i].identifier
                       # gestureState.currentTouches[j].identifier

\* A move of an identifier already in currentTouches, with two present.
C6_Witness ==
    /\ op.name = "handleTouchMove" /\ op.forwarded /\ op.wasProcessing
    /\ Len(gestureState.currentTouches) = 2
    /\ gestureState.currentTouches[1].identifier = op.identifier

\* C7: once the last identifier of a gesture has been released the
\* recognizer is no longer tracking, whether or not the gesture was
\* classified (so that the next onTouchStart begins a new GestureState).
C7_IdleAfterFullRelease ==
    FullyReleased => ~isProcessing

\* C8: at most one event per gesture.  An event is returned only by an
\* onTouchEnd, only for a gesture not yet recognized, and marks it
\* recognized; from then on onTouchMove and onTouchEnd return null, and the
\* next onTouchStart is accepted and begins a new gesture.
C8_OneEventPerGesture ==
    [][ LET done == gestureState # Null /\ gestureState.isRecognized
            call == op'
        IN /\ ret'.kind = "event" =>
                /\ ~done
                /\ call.name = "handleTouchEnd"
                /\ gestureState'.isRecognized
           /\ ( /\ done /\ call.forwarded
                /\ call.name \in {"handleTouchMove", "handleTouchEnd"} )
              => ret' = Null
           /\ (done /\ call.forwarded /\ call.name = "handleTouchStart")
              => /\ isProcessing'
                 /\ gestureState' =
                      NewGestureState(activeTouches'[call.identifier], now)
      ]_vars

\* An onTouchEnd that came after the event of its gesture and returned null.
C8_Witness ==
    /\ op.name = "handleTouchEnd" /\ op.forwarded
    /\ gestureState # Null /\ gestureState.isRecognized
    /\ ret = Null

\* C9: setEnabled(false) empties the active-touch registry and leaves the
\* recognizer idle with no GestureState; with no GestureState no event is
\* returned, the recognizer keeps none until the next onTouchStart, and that
\* onTouchStart begins a gesture whose startTouches holds only its touch.
C9_DisableCancels ==
    [][ LET call    == op'
            started == call.name = "handleTouchStart" /\ call.forwarded
        IN /\ (call.name = "setEnabled" /\ ~isEnabled') =>
                /\ activeTouches' = EmptyMap
                /\ gestureState' = Null
                /\ ~isProcessing'
           /\ gestureState = Null =>
                /\ ret'.kind # "event"
                /\ ~started => gestureState' = Null
                /\ started =>
                     /\ isProcessing'
                     /\ gestureState' =
                          NewGestureState(activeTouches'[call.identifier], now)
      ]_vars

\* setEnabled(false) arrived while a gesture was in flight.
C9_Witness ==
    /\ op.name = "setEnabled" /\ ~isEnabled /\ op.wasProcessing
    /\ gestureState = Null /\ activeTouches = EmptyMap

C11_TwoStartsTwoTouches ==
    [][ ( /\ op.name = "handleTouchStart" /\ op.forwarded
          /\ op'.name = "handleTouchStart" /\ op'.forwarded
          /\ op'.identifier # op.identifier )
        => /\ gestureState' # Null
           /\ Len(gestureState'.currentTouches) = 2 ]_vars

---------------------------------------------------------------------------
(* Properties of two fingers moving apart (SpecPinch).                     *)

\* Two touches went down one after the other, then each moved once, and
\* they are now farther from each other than they were when they went down.
MovedApart ==
    /\ IsPinch(pinch)
    /\ pinch.movedFirst # Null /\ pinch.movedSecond # Null
    /\ DistSq(pinch.movedFirst, pinch.movedSecond)
         > DistSq(pinch.first, pinch.second)

\* C12: when two touches are started and then both moved so that the
\* distance between them grows (from (100,100)-(200,100) to
\* (90,100)-(210,100), say), the GestureState's scale is greater than 1.
C12_ScaleGrows ==
    MovedApart => /\ gestureState # Null
                  /\ gestureState.scale.num > gestureState.scale.den

---------------------------------------------------------------------------
(* Further properties of the recognizer under any interleaving of the      *)
(* handlers for two identifiers (Spec).                                    *)

\* C13: classification runs only when currentTouches becomes empty.  An
\* onTouchEnd returns an event only if it emptied currentTouches; one that
\* leaves an identifier in currentTouches returns null, invokes no listener
\* and leaves the recognizer tracking.
C13_PartialReleaseNoEvent ==
    [][ (op'.name = "handleTouchEnd" /\ op'.forwarded) =>
          /\ ret'.kind = "event" =>
                /\ gestureState.currentTouches # <<>>
                /\ gestureState'.currentTouches = <<>>
          /\ (gestureState' # Null /\ gestureState'.currentTouches # <<>>) =>
                /\ ret' = Null
                /\ effects'.invoked = <<>>
                /\ isProcessing'
                /\ gestureState'.isActive /\ ~gestureState'.isRecognized
      ]_vars

\* One of two concurrent touches was released; the other is still down.
C13_Witness ==
    /\ op.name = "handleTouchEnd" /\ op.forwarded /\ op.wasProcessing
    /\ multi
    /\ Len(gestureState.currentTouches) = 1
    /\ gestureState.currentTouches[1].identifier # op.identifier
    /\ ret = Null /\ isProcessing

\* C14: the state carried by an emitted GestureEvent is a snapshot of the
\* final state of its gesture: it has isRecognized = true and
\* isActive = false, and its other fields are those the recognizer holds
\* when onTouchEnd returns.
C14_EventCarriesFinalState ==
    ret.kind = "event" =>
        /\ ret.state.isRecognized
        /\ ~ret.state.isActive
        /\ ret.state = gestureState

\* The identifier id is neither in the manager's registry nor in the
\* recognizer's currentTouches.
NotActive(id) ==
    /\ id \notin DOMAIN activeTouches
    /\ gestureState # Null =>
         \A i \in 1..Len(gestureState.currentTouches) :
             gestureState.currentTouches[i].identifier # id

\* C17: a touch-move or touch-end whose identifier is not among the active
\* touches is ignored: no exception leaves the handler, and currentTouches,
\* the deltas, the velocity and the active-touch registry stay as they were.
C17_UnknownIdentifierIgnored ==
    [][ ( /\ op'.name \in {"handleTouchMove", "handleTouchEnd"}
          /\ op'.forwarded
          /\ NotActive(op'.identifier) )
        => /\ ~effects'.threw
           /\ activeTouches' = activeTouches
           /\ (gestureState = Null) = (gestureState' = Null)
           /\ gestureState # Null =>
                /\ gestureState'.currentTouches = gestureState.currentTouches
                /\ gestureState'.deltaX = gestureState.deltaX
                /\ gestureState'.deltaY = gestureState.deltaY
                /\ gestureState'.velocityX = gestureState.velocityX
                /\ gestureState'.velocityY = gestureState.velocityY
                /\ gestureState'.velocityPer = gestureState.velocityPer
      ]_vars

---------------------------------------------------------------------------
(* Properties of the manager's dispatch and listener lists (SpecManager).  *)

\* C15: when a GestureEvent is dispatched, every listener registered for
\* its type is invoked once, in registration order, whether or not some
\* of them throw; no exception leaves handleTouchEnd; and the active-touch
\* registry, the recognizer and the counters end as they do when no
\* listener throws: the touch is deleted, the recognizer holds what
\* onTouchEnd left, and the gesture is counted.
C15_DispatchSurvivesThrow ==
    [][ (op'.name = "handleTouchEnd" /\ ret'.kind = "event") =>
          LET listeners == gestureCallbacks[ret'.type]
              counted   == gestureMetrics[ret'.type]
          IN /\ effects'.invoked = listeners
             /\ ~effects'.threw
             /\ activeTouches' = MapDelete(activeTouches, op'.identifier)
             /\ ~isProcessing'
             /\ gestureState' = [ret'.state EXCEPT !.isRecognized = TRUE,
                                                   !.isActive = FALSE]
             /\ gestureCallbacks' = gestureCallbacks
             /\ gestureMetrics' =
                  [gestureMetrics EXCEPT ![ret'.type] =
                     [count        |-> counted.count + 1,
                      successCount |-> counted.successCount + 1,
                      errorCount   |-> counted.errorCount]]
      ]_vars

\* An event was dispatched to a listener that returned, to one that threw
\* and then again to one that returned.
C15_Witness ==
    /\ op.name = "handleTouchEnd" /\ ret.kind = "event"
    /\ effects.invoked = <<1, 2, 1>>
    /\ effects.errors = 1

\* C16: while the manager is disabled, handleTouchStart, handleTouchMove
\* and handleTouchEnd change neither the active-touch registry, nor the
\* recognizer, nor the listener lists, nor the gesture counters, and
\* dispatch no event.
C16_DisabledHandlersNoOp ==
    [][ ( /\ ~isEnabled
          /\ op'.name \in {"handleTouchStart", "handleTouchMove",
                           "handleTouchEnd"} )
        => /\ UNCHANGED <<activeTouches, gestureState, isProcessing,
                          gestureConfig, gestureCallbacks, gestureMetrics,
                          isEnabled>>
           /\ ret' = Null
           /\ effects'.invoked = <<>>
      ]_vars

\* A touch handler was called on a disabled manager that has a listener
\* and has counted a gesture.
C16_Witness ==
    /\ ~isEnabled
    /\ op.name \in {"handleTouchStart", "handleTouchMove", "handleTouchEnd"}
    /\ ~op.forwarded
    /\ totalListeners > 0
    /\ totalGestures > 0

\* The list without its entry at index i.
Without(list, i) ==
    [j \in 1..(Len(list) - 1) |-> IF j < i THEN list[j] ELSE list[j + 1]]

\* C19: listener lists are kept per gesture type, in insertion order.
\* onGesture(t, l) appends l to the list of t; offGesture(t, l) removes one
\* occurrence of l from the list of t and keeps the order of the others,
\* or changes nothing if l is not in the list; neither touches the list of
\* another type, and no other call changes a list.
C19_ListenerLists ==
    [][ LET t    == op'.arg.gestureType
            l    == op'.arg.callback
            list == gestureCallbacks[t]
            others == \A u \in DOMAIN gestureCallbacks \ {t} :
                         gestureCallbacks'[u] = gestureCallbacks[u]
        IN /\ DOMAIN gestureCallbacks' = DOMAIN gestureCallbacks
           /\ op'.name = "onGesture" =>
                /\ gestureCallbacks'[t] = Append(list, l)
                /\ others
           /\ op'.name = "offGesture" =>
                /\ others
                /\ IF \E i \in 1..Len(list) : list[i] = l
                   THEN \E i \in 1..Len(list) :
                           /\ list[i] = l
                           /\ gestureCallbacks'[t] = Without(list, i)
                   ELSE gestureCallbacks'[t] = list
           /\ op'.name \notin {"onGesture", "offGesture"} =>
                gestureCallbacks' = gestureCallbacks
      ]_vars

\* offGesture removed one of two registrations of a listener while the
\* other type had a listener of its own.
C19_Witness ==
    /\ op.name = "offGesture"
    /\ op.arg.gestureType = "TAP" /\ op.arg.callback = 1
    /\ gestureCallbacks["TAP"] = <<1>>
    /\ gestureCallbacks["PAN"] = <<2>>

---------------------------------------------------------------------------
(* Properties of the touch-target registry (SpecTargets).                  *)

\* The registry b is the registry a except, possibly, for the id.
SameBut(a, b, id) ==
    /\ DOMAIN b \ {id} = DOMAIN a \ {id}
    /\ \A other \in DOMAIN a \ {id} : b[other] = a[other]

\* C18: registerTouchTarget leaves the target registered under its id,
\* whether or not validation warned, and replaces a target already
\* registered under that id, so that every entry of the registry is keyed
\* by its own id; unregisterTouchTarget removes the id, changes nothing
\* when the id is absent, and does not fail.
C18_TargetRegistry ==
    [][ /\ op'.name = "registerTouchTarget" =>
             /\ ~effects'.threw
             /\ op'.arg.id \in DOMAIN touchTargets'
             /\ touchTargets'[op'.arg.id] = op'.arg
             /\ SameBut(touchTargets, touchTargets', op'.arg.id)
        /\ op'.name = "unregisterTouchTarget" =>
             /\ ~effects'.threw
             /\ op'.arg \notin DOMAIN touchTargets'
             /\ SameBut(touchTargets, touchTargets', op'.arg)
             /\ op'.arg \notin DOMAIN touchTargets =>
                  touchTargets' = touchTargets
        /\ \A id \in DOMAIN touchTargets' : touchTargets'[id].id = id
      ]_vars

\* A target below the minimum size was registered under an id whose
\* previous target it was too close to: both warnings were written, and
\* the registry holds the new target alone.
C18_Witness ==
    /\ op.name = "registerTouchTarget"
    /\ effects.warnings = 2
    /\ DOMAIN touchTargets = {op.arg.id}
    /\ touchTargets[op.arg.id] = op.arg

---------------------------------------------------------------------------
(* Properties of updateConfig (SpecConfig).                                *)

\* The thresholds the partial configuration newConfig names.
Named(newConfig) ==
    IF "gestureConfig" \in DOMAIN newConfig
    THEN DOMAIN newConfig.gestureConfig
    ELSE {}

\* C20: updateConfig(partial) merges.  Every threshold the partial does
\* not name keeps, in the recognizer's configuration, the value it had
\* before the call, every threshold it names takes the value given, and
\* the call changes neither the GestureState nor whether the recognizer
\* is tracking.
C20_UpdateConfigMerges ==
    [][ op'.name = "updateConfig" =>
          /\ DOMAIN gestureConfig' = DOMAIN gestureConfig
          /\ \A f \in DOMAIN gestureConfig :
                gestureConfig'[f] = IF f \in Named(op'.arg)
                                    THEN op'.arg.gestureConfig[f]
                                    ELSE gestureConfig[f]
          /\ UNCHANGED <<gestureState, isProcessing, activeTouches>>
      ]_vars

\* With a gesture in flight, an update that names only minDistance came
\* after one that had set maxDuration: both values are in force.
C20_Witness ==
    /\ op.name = "updateConfig"
    /\ Named(op.arg) = {"minDistance"}
    /\ isGestureActive
    /\ gestureConfig.minDistance = 15
    /\ gestureConfig.maxDuration = 150

---------------------------------------------------------------------------
(* Properties of the object pools (SpecPool).                              *)

WithinCapacity(pool, capacity) == ~LessThan(capacity, Number(Len(pool)))

AtCapacity(pool, capacity) == ~LessThan(Number(Len(pool)), capacity)

\* C21: each pool is within its configured capacity when constructed, and
\* no getPooledObject or returnPooledObject takes a pool that is within its
\* capacity beyond it; a returnPooledObject at capacity leaves the pool as
\* it is, and a getPooledObject on an empty pool returns a fresh object,
\* throws nothing and leaves the pool empty.
C21_PoolWithinCapacity ==
    /\ WithinCapacity(memoryPool, optimizerConfig.memoryPoolSize)
    /\ WithinCapacity(objectPool, memoryConfig.poolSize)
    /\ [][ /\ op'.name \in {"getPooledObject", "returnPooledObject"}
              => /\ WithinCapacity(memoryPool, optimizerConfig.memoryPoolSize)
                    => WithinCapacity(memoryPool', optimizerConfig'.memoryPoolSize)
                 /\ ~effects'.threw
           /\ ( /\ op'.name = "returnPooledObject"
                /\ AtCapacity(memoryPool, optimizerConfig.memoryPoolSize) )
              => memoryPool' = memoryPool
           /\ (op'.name = "getPooledObject" /\ memoryPool = <<>>)
              => ret' = createPooledObject /\ memoryPool' = <<>>
           /\ op'.name \in {"MemoryManager.getPooledObject",
                            "MemoryManager.returnPooledObject"}
              => /\ WithinCapacity(objectPool, memoryConfig.poolSize)
                    => WithinCapacity(objectPool', memoryConfig'.poolSize)
                 /\ ~effects'.threw
           /\ ( /\ op'.name = "MemoryManager.returnPooledObject"
                /\ AtCapacity(objectPool, memoryConfig.poolSize) )
              => objectPool' = objectPool
           /\ (op'.name = "MemoryManager.getPooledObject" /\ objectPool = <<>>)
              => /\ ret' = MemoryManager_createPooledObject
                 /\ objectPool' = <<>>
         ]_vars

\* A foreign object was returned to a full, enabled pool of two objects and
\* is not in it.
C21_Witness ==
    /\ op.name = "returnPooledObject"
    /\ op.arg = [x |-> 7, reset |-> FALSE]
    /\ optimizerConfig.enableMemoryPooling
    /\ optimizerConfig.memoryPoolSize = Number(2)
    /\ memoryPool = <<createPooledObject, createPooledObject>>

\* C22: right after an updateConfig that names a pool capacity k >= 0, the
\* pool holds exactly k objects.
C22_ResizeTakesEffect ==
    [][ /\ ( /\ op'.name = "updateConfig"
             /\ "memoryPoolSize" \in DOMAIN op'.arg )
           => Number(Len(memoryPool')) = op'.arg.memoryPoolSize
        /\ ( /\ op'.name = "MemoryManager.updateConfig"
             /\ "poolSize" \in DOMAIN op'.arg )
           => Number(Len(objectPool')) = op'.arg.poolSize
      ]_vars

---------------------------------------------------------------------------
(* Properties of the result cache (SpecCache).                             *)

\* The entries with the lowest timestamp.
Oldest(cache) ==
    {i \in 1..Len(cache) :
        \A j \in 1..Len(cache) : cache[i].timestamp <= cache[j].timestamp}

Full(cache) == Number(Len(cache)) = optimizerConfig.maxCacheSize

\* C23: a cacheGestureResult into a cache that holds maxCacheSize entries
\* removes exactly one entry, one with the oldest timestamp, and leaves the
\* cache with maxCacheSize entries, whatever the key.
C23_InsertEvictsOldest ==
    [][ ( /\ op'.name = "cacheGestureResult"
          /\ optimizerConfig.enableGestureCaching
          /\ Full(gestureCache) )
        => /\ Number(Len(gestureCache')) = optimizerConfig.maxCacheSize
           /\ \E i \in Oldest(gestureCache) :
                 keysOf(gestureCache') =
                    (keysOf(gestureCache) \ {gestureCache[i].key})
                       \cup {op'.arg.key}
      ]_vars

\* The entries of a cache with their lookup counts forgotten.
Unread(cache) == [i \in 1..Len(cache) |-> [cache[i] EXCEPT !.accessCount = 0]]

\* C24: two runs that make the same calls at the same clock readings,
\* except that the second makes no getCachedGestureResult, hold the same
\* keys with the same data and timestamps in the same order after every
\* call: the lookups change no eviction.
C24_EvictionIgnoresLookups == Unread(gestureCache) = shadowCache

\* The last insertion evicted an entry while an entry that had been looked
\* up stayed in the cache.
C24_Witness ==
    /\ op.name = "cacheGestureResult"
    /\ evicted # <<>>
    /\ \E i \in 1..Len(gestureCache) :
          /\ gestureCache[i].accessCount > 0
          /\ gestureCache[i].key # op.arg.key
          /\ \E j \in 1..Len(gestureCache) :
                /\ gestureCache[j].accessCount = 0
                /\ gestureCache[j].timestamp > gestureCache[i].timestamp

\* C25: while enableGestureCaching is false, cacheGestureResult leaves the
\* cache as it is and getCachedGestureResult returns null and leaves the
\* cache as it is.
C25_DisabledCacheBypassed ==
    [][ ( /\ ~optimizerConfig.enableGestureCaching
          /\ op'.name \in {"cacheGestureResult", "getCachedGestureResult"} )
        => /\ gestureCache' = gestureCache
           /\ ret' = Null
           /\ ~effects'.threw
      ]_vars

\* A key that is in the cache was looked up while caching was disabled.
C25_Witness ==
    /\ ~optimizerConfig.enableGestureCaching
    /\ op.name = "getCachedGestureResult"
    /\ op.arg.key \in keysOf(gestureCache)
    /\ ret = Null

---------------------------------------------------------------------------
(* Properties of the batch queue (SpecBatch, SpecBatchLive).               *)

\* C26: at most one processBatch call is between its start and its
\* completion.
C26_OneDrainInFlight == Len(drains) <= 1

\* C27: once a drain is in flight, the queue becomes empty.
C27_QueueDrains == (drains # <<>>) ~> (batchQueue = <<>>)

\* C28: when processItem throws for an item of a batch, no exception
\* leaves the callback, isProcessingBatch is cleared, the queue keeps its
\* items, and a processBatch callback is set if the queue is not empty.
C28_FailureIsContained ==
    [][ ( /\ op'.name = "processBatchItemsTimer"
          /\ fails(op'.arg.batch) )
        => /\ ~effects'.threw
           /\ ~isProcessingBatch'
           /\ batchQueue' = batchQueue
           /\ batchQueue # <<>>
                => /\ timers' # <<>>
                   /\ last(timers') = ProcessBatchCallback
      ]_vars

\* C29: no addToBatch gives an item to processItem; only the callback of
\* processBatchItems does.
C29_DrainIsDeferred ==
    [][ /\ op'.name = "addToBatch" => processed' = processed
        /\ processed' # processed => op'.name = "processBatchItemsTimer"
      ]_vars

\* The addToBatch that filled the queue has returned: its batch waits for
\* the callback and nothing has been processed.
C29_Witness ==
    /\ op.name = "addToBatch"
    /\ isProcessingBatch
    /\ drains # <<>>
    /\ Number(Len(last(drains).batch)) = optimizerConfig.batchSize
    /\ last(last(drains).batch) = op.arg.item
    /\ timers # <<>>
    /\ last(timers) = ItemsCallback(last(drains).batch)
    /\ processed = <<>>

---------------------------------------------------------------------------
(* Properties of the adaptive tuning (SpecTuning).                         *)

Between(low, v, high) ==
    ~LessThan(v, Number(low)) /\ ~LessThan(Number(high), v)

\* C30: an optimizeGestureRecognition that changes maxCacheSize leaves it
\* in [100, 2000] and one that changes batchSize leaves it in [5, 20]; an
\* optimizeMemory that changes gcThreshold leaves it in [20, 50] and one
\* that changes poolSize leaves it in [50, 200].
C30_AdjustmentsClamped ==
    [][ /\ op'.name = "optimizeGestureRecognition"
           => /\ optimizerConfig'.maxCacheSize # optimizerConfig.maxCacheSize
                 => Between(100, optimizerConfig'.maxCacheSize, 2000)
              /\ optimizerConfig'.batchSize # optimizerConfig.batchSize
                 => Between(5, optimizerConfig'.batchSize, 20)
        /\ op'.name = "optimizeMemory"
           => /\ memoryConfig'.gcThreshold # memoryConfig.gcThreshold
                 => Between(20, memoryConfig'.gcThreshold, 50)
              /\ memoryConfig'.poolSize # memoryConfig.poolSize
                 => Between(50, memoryConfig'.poolSize, 200)
      ]_vars

\* C31: an optimizeGestureRecognition whose snapshot is above a high
\* threshold (memory > 40, time > 50, error rate > 0.1) does not raise
\* maxCacheSize, does not raise batchSize and does not enable caching; one
\* whose snapshot is below a low threshold (memory < 20, time < 20, error
\* rate < 0.02) does not lower them and does not disable caching; one whose
\* snapshot is inside the band leaves the parameter as it is.
C31_TuningFollowsHysteresis ==
    [][ op'.name = "optimizeGestureRecognition"
        => LET metrics == op'.arg
               old == optimizerConfig
               new == optimizerConfig'
           IN /\ metrics.memoryUsage > 40
                 => ~LessThan(old.maxCacheSize, new.maxCacheSize)
              /\ metrics.memoryUsage < 20
                 => ~LessThan(new.maxCacheSize, old.maxCacheSize)
              /\ (metrics.memoryUsage >= 20 /\ metrics.memoryUsage <= 40)
                 => new.maxCacheSize = old.maxCacheSize
              /\ metrics.gestureRecognitionTime > 50
                 => ~LessThan(old.batchSize, new.batchSize)
              /\ metrics.gestureRecognitionTime < 20
                 => ~LessThan(new.batchSize, old.batchSize)
              /\ ( /\ metrics.gestureRecognitionTime >= 20
                   /\ metrics.gestureRecognitionTime <= 50 )
                 => new.batchSize = old.batchSize
              /\ metrics.errorRate > 10
                 => (new.enableGestureCaching => old.enableGestureCaching)
              /\ metrics.errorRate < 2
                 => (old.enableGestureCaching => new.enableGestureCaching)
              /\ (metrics.errorRate >= 2 /\ metrics.errorRate <= 10)
                 => new.enableGestureCaching = old.enableGestureCaching
      ]_vars

---------------------------------------------------------------------------
(* Properties of the PerformanceMonitor (SpecMonitor, SpecTelemetry).      *)

\* a + b = 1
SumToOne(a, b) == a.num * b.den + b.num * a.den = a.den * b.den

\* C32: getMetrics changes no counter; with total the sum of count and
\* successes the sum of successCount over all gesture types as the call finds
\* them, the snapshot has errorRate * total = total - successes and
\* successRate * total = successes when total > 0, and errorRate = 0 and
\* successRate = 1 when total = 0; errorRate + successRate = 1.
C32_RatesFromCounters ==
    [][ op'.name = "getMetrics"
        => LET total == reduce(gestureMetrics, "count")
               successes == reduce(gestureMetrics, "successCount")
               snapshot == ret'
           IN /\ gestureMetrics' = gestureMetrics
              /\ total > 0
                 => /\ snapshot.errorRate.num * total
                         = (total - successes) * snapshot.errorRate.den
                    /\ snapshot.successRate.num * total
                         = successes * snapshot.successRate.den
              /\ total = 0
                 => /\ snapshot.errorRate = Number(0)
                    /\ snapshot.successRate = Number(1)
              /\ SumToOne(snapshot.errorRate, snapshot.successRate)
      ]_vars

\* getMetrics found two successes and one failure recorded: the rates are
\* 1/3 and 2/3.
C32_Witness ==
    /\ op.name = "getMetrics"
    /\ reduce(gestureMetrics, "count") = 3
    /\ reduce(gestureMetrics, "successCount") = 2
    /\ ret.errorRate = Ratio(1, 3)
    /\ ret.successRate = Ratio(2, 3)

---------------------------------------------------------------------------
(* Properties of the direction functions (SpecDirection).                  *)

\* The swipe gesture type of a direction.
SwipeTowards(direction) ==
    CASE direction = "right" -> "SWIPE_RIGHT"
      [] direction = "left"  -> "SWIPE_LEFT"
      [] direction = "down"  -> "SWIPE_DOWN"
      [] direction = "up"    -> "SWIPE_UP"

\* C33: calculateGestureDirection(dx, dy) is right or left only when
\* |dx| > |dy|, right exactly when dx > 0; otherwise, ties included, it is
\* down when dy > 0 and up when not.  recognizeSwipeDirection gives the
\* swipe type of that direction for the same deltas.
C33_TiesAreVertical ==
    [][ LET dx == op'.arg.deltaX
            dy == op'.arg.deltaY
            expected == IF Abs(dx) > Abs(dy)
                        THEN (IF dx > 0 THEN "right" ELSE "left")
                        ELSE (IF dy > 0 THEN "down" ELSE "up")
        IN /\ op'.name = "calculateGestureDirection"
              => /\ ret'.direction = expected
                 /\ Abs(dx) = Abs(dy) => ret'.direction \in {"down", "up"}
                 /\ ret'.direction \in {"right", "left"} => Abs(dx) > Abs(dy)
                 /\ SwipeTowards(ret'.direction)
                      = recognizeSwipeDirection([deltaX |-> dx, deltaY |-> dy])
           /\ op'.name = "recognizeSwipeDirection"
              => /\ ret'.type = SwipeTowards(expected)
                 /\ ret'.type = SwipeTowards(calculateGestureDirection(dx, dy))
      ]_vars

\* calculateGestureDirection(-4, 4), a tie, returned down.
C33_Witness ==
    /\ op.name = "calculateGestureDirection"
    /\ op.arg = [deltaX |-> -4, deltaY |-> 4]
    /\ ret.direction = "down"

---------------------------------------------------------------------------
(* Properties of the classification rules (SpecClassify).                  *)

\* handleTouchEnd reaches a recognizer that follows one touch, the one
\* released.
ReleasesLastTouch(call) ==
    /\ call.name = "handleTouchEnd"
    /\ call.forwarded
    /\ isProcessing
    /\ gestureState # Null
    /\ Len(gestureState.currentTouches) = 1
    /\ gestureState.currentTouches[1].identifier = call.identifier

\* distance and duration as recognizeGesture finds them at the release.
Still == SumSq(gestureState.deltaX, gestureState.deltaY)
           < gestureConfig.minDistance * gestureConfig.minDistance
Far   == SumSq(gestureState.deltaX, gestureState.deltaY)
           > gestureConfig.minDistance * gestureConfig.minDistance
Held  == now - gestureState.startTime

\* The velocity of a gesture state is velocityThreshold.
AtThreshold(gs) ==
    SumSq(gs.velocityX, gs.velocityY)
        * gestureConfig.velocityThreshold.den
        * gestureConfig.velocityThreshold.den
      = gestureConfig.velocityThreshold.num
          * gestureConfig.velocityThreshold.num
          * gs.velocityPer * gs.velocityPer

C35_ComparisonsAreStrict ==
    [][ ReleasesLastTouch(op')
        => /\ (~Still /\ ~Far) => ret' = Null
           /\ (Far /\ AtThreshold(gestureState)) => ret' = Null
           /\ ~effects'.threw
           /\ ret' = Null => effects'.errors = 0
      ]_vars

\* A touch that moved 60 px in 200 ms, velocityThreshold, was released and
\* nothing was returned.
C35_Witness ==
    /\ op.name = "handleTouchEnd"
    /\ op.forwarded
    /\ op.wasProcessing
    /\ ret = Null
    /\ gestureState # Null
    /\ gestureState.currentTouches = <<>>
    /\ SumSq(gestureState.deltaX, gestureState.deltaY) = 3600
    /\ gestureState.velocityPer > 0
    /\ AtThreshold(gestureState)

---------------------------------------------------------------------------
(* Properties of reset and of the capacities over every call (SpecPool,    *)
(* SpecTrim, SpecShrink).                                                  *)

\* C36: right after PerformanceOptimizer.reset() the cache and the batch
\* queue are empty and the pool is the one a constructor given the current
\* configuration makes: memoryPoolSize objects, within the capacity.
C36_ResetRestoresFreshPool ==
    [][ op'.name = "reset"
        => /\ gestureCache' = <<>>
           /\ batchQueue' = <<>>
           /\ memoryPool' = initializeMemoryPool(optimizerConfig', <<>>)
           /\ WithinCapacity(memoryPool', optimizerConfig'.memoryPoolSize)
      ]_vars

\* C37: the cache never holds more entries than maxCacheSize.
C37_CacheWithinCapacity ==
    ~LessThan(optimizerConfig.maxCacheSize, Number(Len(gestureCache)))

\* C38: the MemoryManager's pool never holds more objects than poolSize.
C38_ObjectPoolWithinCapacity == WithinCapacity(objectPool, memoryConfig.poolSize)

\* count = successCount + errorCount for every gesture type.
Balanced(metrics) ==
    \A t \in DOMAIN metrics :
        metrics[t].count = metrics[t].successCount + metrics[t].errorCount

---------------------------------------------------------------------------
(* Properties of the order of processing (SpecOrder).                      *)

\* The items of a sequence are in the order they were enqueued, none twice.
InEnqueueOrder(items) ==
    \A i \in 1..Len(items), j \in 1..Len(items) : i < j => items[i] < items[j]

\* The batches of the drains in flight, one after the other.
RECURSIVE batchesOf(_)
batchesOf(inFlight) ==
    IF inFlight = <<>> THEN <<>>
    ELSE Head(inFlight).batch \o batchesOf(Tail(inFlight))

\* C40: the items given to processItem so far are in enqueue order, none
\* twice; the batches of the drains in flight followed by the queue are in
\* enqueue order, so no item is in two batches or in a batch and in the
\* queue; and a call that starts a drain gives it at most batchSize items,
\* the front of the queue as the call finds it (with the item an addToBatch
\* has pushed), and leaves the rest in the queue.
C40_ProcessedInEnqueueOrder ==
    /\ []InEnqueueOrder(processed)
    /\ []InEnqueueOrder(batchesOf(drains) \o batchQueue)
    /\ [][ Len(drains') > Len(drains)
           => LET queue == IF op'.name = "addToBatch"
                           THEN Append(batchQueue, op'.arg.item)
                           ELSE batchQueue
                  batch == last(drains').batch
              IN /\ drains' = Append(drains, Drain(batch))
                 /\ ~LessThan(optimizerConfig.batchSize, Number(Len(batch)))
                 /\ queue = batch \o batchQueue'
         ]_vars

\* After item 1 was processed in a batch of its own, items 3 and 4 were
\* processed as one batch.
C40_Witness ==
    /\ op.name = "processBatchItemsTimer"
    /\ op.arg.batch = <<3, 4>>
    /\ processed = <<1, 3, 4>>

====
